---- MODULE Spec2Model ----
(***************************************************************************)
(* A model of the ZIP reader of ofek/zip2 (src/read.rs, src/spec.rs).      *)
(*                                                                         *)
(* An archive is a sequence of bytes (0..255).  Offsets are 0-based as in  *)
(* the source: the byte at offset p of f is f[p + 1].  Multi-byte fields   *)
(* are little-endian and are decoded exactly; the archives the             *)
(* specifications draw keep every decoded field below 2^31.                *)
(*                                                                         *)
(* Results are records: [ok |-> TRUE, ...] or                              *)
(* [ok |-> FALSE, err |-> kind, msg |-> text] with kind one of             *)
(* "Io", "InvalidArchive", "UnsupportedArchive", "InvalidPassword",        *)
(* "FileNotFound", and "Panic" for a panic of the Rust code.               *)
(***************************************************************************)
EXTENDS Integers, Sequences, FiniteSets, TLC

VARIABLES
    bytes,      \* the reader's content: the archive file
    zip,        \* ZipArchive: the result of ZipArchive::new(bytes), or NotOpened
    orig,       \* the archive as parsed before junk was prepended, or NotOpened
    shift,      \* number of bytes prepended since orig was parsed
    opened,     \* the last by_index / by_name call: its arguments and result
    seen        \* what the last ZipArchive::new saw: the end record it found
                \* and the directory candidate get_metadata chose

VARIABLES
    stream,     \* a reader handed to read_zipfile_from_stream: its position, the
                \* ZipFile that borrows it, and the results of the calls so far
    merged,     \* the last merge_contents call: the writer's position before
                \* it, what it returned and what the writer received
    block,      \* a block value on a host of some byte order, the bytes
                \* Block::write gave a writer and what Block::parse made of them
    entry,      \* a descriptor as ZipFileData::from_central_header made it, and
                \* what parse_extra_field made of it
    finders,    \* per worker of a group that calls find_content on the archive's
                \* descriptors, each with its own reader: where it is in the call
    search,     \* the last ZIP64 end search of get_directory_info_zip64: the range it
                \* was given and what Zip64CentralDirectoryEnd::find_and_parse returned
    scan,       \* the ZIP32 end search of Zip32CentralDirectoryEnd::find_and_parse taken one
                \* window at a time: where it stands, the windows it searched, its result
    reading,    \* the ZipFile the last by_index call returned, as the read calls made on it
                \* since have left it, and what each of those calls returned
    imm         \* an IntermediateFile::Immediate: the length of its buffer, its cursor, the
                \* number of calls made on it and what the last read, write or seek returned

callVars == <<stream, merged, block, entry, finders, search, scan, reading, imm>>
openVars == <<bytes, zip, orig, shift, opened, seen, callVars>>

VARIABLES
    sequential,       \* what extract left in its directory and returned, or NotRun
    num_cpus,         \* NUM_CPUS: the available parallelism
    outcome,          \* of extract_pipelined: NotCalled, Running, or what it returned
    stage_results,    \* per stage: Running, or the result its closure ended with
    dirs_task,        \* the results sent on dirs_task_tx, in the order sent
    plan,             \* plan stage: the entries collected, the ones not yet inspected
    paths,            \* channel paths_tx -> paths_rx
    stops_prior,      \* channel stops_prior_tx -> stops_prior_rx (capacity 1)
    stops,            \* channel stops_tx -> stops_rx (capacity 200)
    processed,        \* channel processed_tx -> processed_rx (capacity 200)
    chunks,           \* read stage: per chunk, the entries still to visit
    mkdir_workers,    \* mkdir stage: per worker, the directories it is creating
    extract_workers,  \* materialize stage: per worker, the item it is retrying
    disk,             \* the target directory: its directories and files
    tmpfiles,         \* the backing files of Paging intermediates that exist
    completed_paths   \* CompletedPaths::seen

pipeVars == <<sequential, num_cpus, outcome, stage_results, dirs_task, plan, paths,
              stops_prior, stops, processed, chunks, mkdir_workers,
              extract_workers, disk, tmpfiles, completed_paths>>
vars == <<openVars, pipeVars>>

(***************************************************************************)
(* Bounds of the model.                                                    *)
(***************************************************************************)
MaxEntries == 2

(***************************************************************************)
(* Small helpers.                                                          *)
(***************************************************************************)
Min(a, b) == IF a <= b THEN a ELSE b
Max(a, b) == IF a >= b THEN a ELSE b
SetMin(S) == CHOOSE x \in S : \A y \in S : x <= y
SetMax(S) == CHOOSE x \in S : \A y \in S : y <= x
saturating_sub(a, b) == IF a >= b THEN a - b ELSE 0
Ok == [ok |-> TRUE]
Err(kind, text) == [ok |-> FALSE, err |-> kind, msg |-> text]
Slice(f, p, n) == [i \in 1..n |-> f[p + i]]
Zeros(n) == [i \in 1..n |-> 0]

(***************************************************************************)
(* Little-endian integers (u16::from_le, u32::from_le, u64::from_le and    *)
(* their to_le inverses).                                                  *)
(***************************************************************************)
read_u16_le(f, p) == f[p + 1] + 256 * f[p + 2]
read_u32_le(f, p) == read_u16_le(f, p) + 65536 * read_u16_le(f, p + 2)
read_u64_le(f, p) ==
    IF read_u32_le(f, p + 4) = 0
    THEN read_u32_le(f, p)
    ELSE read_u32_le(f, p) + 65536 * 65536 * read_u32_le(f, p + 4)

u16_to_le(v) == <<v % 256, (v \div 256) % 256>>
u32_to_le(v) == u16_to_le(v % 65536) \o u16_to_le(v \div 65536)
u64_to_le(v) == u32_to_le(v) \o <<0, 0, 0, 0>>

(***************************************************************************)
(* spec.rs: the magics, as their little-endian bytes (Magic::to_le_bytes). *)
(***************************************************************************)
LOCAL_FILE_HEADER_SIGNATURE == <<80, 75, 3, 4>>
CENTRAL_DIRECTORY_HEADER_SIGNATURE == <<80, 75, 1, 2>>
CENTRAL_DIRECTORY_END_SIGNATURE == <<80, 75, 5, 6>>
ZIP64_CENTRAL_DIRECTORY_END_SIGNATURE == <<80, 75, 6, 6>>
ZIP64_CENTRAL_DIRECTORY_END_LOCATOR_SIGNATURE == <<80, 75, 6, 7>>

\* mem::size_of of the packed blocks
SizeOfZip32CDEBlock == 22
SizeOfZip64CDELocatorBlock == 20
SizeOfZip64CDEBlock == 56
SizeOfMagic == 4

\* whether the four bytes at offset p of f are sig (false when they run past the end)
MagicAt(f, p, sig) ==
    /\ p >= 0
    /\ p + SizeOfMagic <= Len(f)
    /\ \A i \in 1..SizeOfMagic : f[p + i] = sig[i]

\* FinderRev::rfind_iter over the window [lo, hi) of f: the start offsets of the
\* occurrences of sig that lie wholly inside the window
rfind_iter(f, lo, hi, sig) ==
    {p \in lo..(hi - SizeOfMagic) : MagicAt(f, p, sig)}

(***************************************************************************)
(* Block::parse: read_exact of size_of bytes at p, then interpret, which   *)
(* checks the magic.                                                       *)
(***************************************************************************)
Block_parse(f, p, size, sig, text) ==
    IF p + size > Len(f) THEN Err("Io", "failed to fill whole buffer")
    ELSE IF ~MagicAt(f, p, sig) THEN Err("InvalidArchive", text)
    ELSE [ok |-> TRUE]

\* Zip32CentralDirectoryEnd::parse at offset p
Zip32CentralDirectoryEnd_parse(f, p) ==
    LET blk == Block_parse(f, p, SizeOfZip32CDEBlock, CENTRAL_DIRECTORY_END_SIGNATURE,
                           "Invalid digital signature header")
    IN  IF ~blk.ok THEN blk
        ELSE LET zip_file_comment_length == read_u16_le(f, p + 20)
             IN  IF p + SizeOfZip32CDEBlock + zip_file_comment_length > Len(f)
                 THEN Err("Io", "failed to fill whole buffer")
                 ELSE [ok |-> TRUE,
                       disk_number |-> read_u16_le(f, p + 4),
                       disk_with_central_directory |-> read_u16_le(f, p + 6),
                       number_of_files_on_this_disk |-> read_u16_le(f, p + 8),
                       number_of_files |-> read_u16_le(f, p + 10),
                       central_directory_size |-> read_u32_le(f, p + 12),
                       central_directory_offset |-> read_u32_le(f, p + 16),
                       zip_file_comment |->
                           Slice(f, p + SizeOfZip32CDEBlock, zip_file_comment_length)]

\* Zip32CentralDirectoryEnd::find_and_parse
END_WINDOW_SIZE_32 == 512

RECURSIVE Zip32Search(_, _)
\* windows that do not overlap: the next one ends where this one starts
Zip32Window_no_overlap(f, window_start, parsing) ==
    IF parsing # {}
    THEN [ok |-> TRUE,
          cde |-> Zip32CentralDirectoryEnd_parse(f, SetMax(parsing)),
          cde_start_pos |-> SetMax(parsing)]
    ELSE IF window_start = 0
    THEN Err("InvalidArchive", "Could not find central directory end")
    ELSE Zip32Search(f, Max(saturating_sub(window_start, END_WINDOW_SIZE_32), 0))

\* one window, given the candidates of the window that parse: the rightmost
\* one is the result; without one the search moves a window to the left
Zip32Window(f, window_start, parsing) ==
    IF parsing # {}
    THEN [ok |-> TRUE,
          cde |-> Zip32CentralDirectoryEnd_parse(f, SetMax(parsing)),
          cde_start_pos |-> SetMax(parsing)]
    ELSE IF window_start = 0
    THEN Err("InvalidArchive", "Could not find central directory end")
    ELSE Zip32Search(f,
             Max(saturating_sub(Min(window_start + SizeOfMagic, Len(f)),
                                END_WINDOW_SIZE_32), 0))

Zip32Search(f, window_start) ==
    Zip32Window(f, window_start,
        {p \in rfind_iter(f, window_start, Min(window_start + END_WINDOW_SIZE_32, Len(f)),
                          CENTRAL_DIRECTORY_END_SIGNATURE) :
             Zip32CentralDirectoryEnd_parse(f, p).ok})

Zip32CentralDirectoryEnd_find_and_parse(f) ==
    IF Len(f) < SizeOfZip32CDEBlock
    THEN Err("InvalidArchive", "Invalid zip header")
    ELSE Zip32Search(f, saturating_sub(Len(f), END_WINDOW_SIZE_32))

\* Zip64CentralDirectoryEndLocator::parse at offset p
Zip64CentralDirectoryEndLocator_parse(f, p) ==
    LET blk == Block_parse(f, p, SizeOfZip64CDELocatorBlock,
                           ZIP64_CENTRAL_DIRECTORY_END_LOCATOR_SIGNATURE,
                           "Invalid zip64 locator digital signature header")
    IN  IF ~blk.ok THEN blk
        ELSE [ok |-> TRUE,
              disk_with_central_directory |-> read_u32_le(f, p + 4),
              end_of_central_directory_offset |-> read_u64_le(f, p + 8),
              number_of_disks |-> read_u32_le(f, p + 16)]

\* Zip64CentralDirectoryEnd::parse at offset p
Zip64CentralDirectoryEnd_parse(f, p) ==
    LET blk == Block_parse(f, p, SizeOfZip64CDEBlock, ZIP64_CENTRAL_DIRECTORY_END_SIGNATURE,
                           "Invalid digital signature header")
    IN  IF ~blk.ok THEN blk
        ELSE [ok |-> TRUE,
              version_made_by |-> read_u16_le(f, p + 12),
              version_needed_to_extract |-> read_u16_le(f, p + 14),
              disk_number |-> read_u32_le(f, p + 16),
              disk_with_central_directory |-> read_u32_le(f, p + 20),
              number_of_files_on_this_disk |-> read_u64_le(f, p + 24),
              number_of_files |-> read_u64_le(f, p + 32),
              central_directory_size |-> read_u64_le(f, p + 40),
              central_directory_offset |-> read_u64_le(f, p + 48)]

\* Zip64CentralDirectoryEnd::find_and_parse: every occurrence of the magic in
\* [nominal_offset, search_upper_bound), window by window from the end, each
\* with archive_offset = position - nominal_offset.  `end - window_start`
\* underflows when nominal_offset > search_upper_bound: the debug_assert (debug
\* build) or the slice index (release build) then panics.
END_WINDOW_SIZE_64 == 2048

RECURSIVE DescSeq(_)
DescSeq(S) == IF S = {} THEN <<>> ELSE <<SetMax(S)>> \o DescSeq(S \ {SetMax(S)})

Zip64SearchEnd(results) ==
    IF results = <<>>
    THEN Err("InvalidArchive", "Could not find ZIP64 central directory end")
    ELSE [ok |-> TRUE, results |-> results]

RECURSIVE Zip64Search(_, _, _, _, _)
\* the occurrences found in one window, parsed
Zip64Parsed(f, nominal_offset, found) ==
    [i \in 1..Len(found) |->
        [cde |-> Zip64CentralDirectoryEnd_parse(f, found[i]),
         archive_offset |-> found[i] - nominal_offset]]

\* the end of one pass of the loop, given what the window added
Zip64Found(f, nominal_offset, search_upper_bound, window_start, results, new) ==
    IF \E i \in 1..Len(new) : ~new[i].cde.ok
    THEN Err("Io", "failed to fill whole buffer")
    ELSE IF window_start = nominal_offset THEN Zip64SearchEnd(results \o new)
    ELSE Zip64Search(f, nominal_offset, search_upper_bound,
             Max(saturating_sub(Min(window_start + SizeOfMagic, search_upper_bound),
                                END_WINDOW_SIZE_64), nominal_offset),
             results \o new)

\* one pass of the loop over the window [window_start, end)
Zip64Window(f, nominal_offset, search_upper_bound, window_start, results, end) ==
    IF end < window_start
    THEN Err("Panic", "attempt to subtract with overflow")
    ELSE IF end - window_start = 0 THEN Zip64SearchEnd(results)
    ELSE IF end > Len(f)
    THEN Err("Io", "failed to fill whole buffer")
    ELSE Zip64Found(f, nominal_offset, search_upper_bound, window_start, results,
             Zip64Parsed(f, nominal_offset,
                 DescSeq(rfind_iter(f, window_start, end,
                                    ZIP64_CENTRAL_DIRECTORY_END_SIGNATURE))))

Zip64Search(f, nominal_offset, search_upper_bound, window_start, results) ==
    Zip64Window(f, nominal_offset, search_upper_bound, window_start, results,
                Min(window_start + END_WINDOW_SIZE_64, search_upper_bound))

Zip64CentralDirectoryEnd_find_and_parse(f, nominal_offset, search_upper_bound) ==
    Zip64Search(f, nominal_offset, search_upper_bound,
                Max(saturating_sub(search_upper_bound, END_WINDOW_SIZE_64), nominal_offset),
                <<>>)

(***************************************************************************)
(* Integer widths.  TLC's integers are 32-bit signed, so u32 is modelled   *)
(* with 30 bits and u64 with 31 bits; u16 keeps its 16 bits.               *)
(***************************************************************************)
U16_MAX == 65535
U32_MAX == 65536 * 16384 - 1
U64_MAX == 65536 * 32767 + 65535
ZIP64_BYTES_THR == U32_MAX

\* u64::checked_add and u64::checked_sub: <<>> is None, <<v>> is Some(v)
checked_add(a, b) == IF a > U64_MAX - b THEN <<>> ELSE <<a + b>>
checked_sub(a, b) == IF a < b THEN <<>> ELSE <<a - b>>

(***************************************************************************)
(* Names.  A decoded name is a sequence of code points.                    *)
(***************************************************************************)
\* String::from_utf8_lossy, for names whose bytes above 0x7F are lone (invalid)
\* bytes: each becomes U+FFFD
from_utf8_lossy(raw) == [i \in 1..Len(raw) |-> IF raw[i] < 128 THEN raw[i] ELSE 65533]

\* FromCp437: ASCII is kept, 0x8B is U+00EF, every other high byte is some
\* code point of its own above U+00FF
from_cp437(raw) ==
    [i \in 1..Len(raw) |-> IF raw[i] < 128 THEN raw[i]
                           ELSE IF raw[i] = 139 THEN 239 ELSE 1000 + raw[i]]

\* CompressionMethod::from_u16
CompressionMethod_from_u16(v) ==
    CASE v = 0 -> "Stored"
      [] v = 8 -> "Deflated"
      [] v = 9 -> "Deflate64"
      [] v = 12 -> "Bzip2"
      [] v = 14 -> "Lzma"
      [] v = 93 -> "Zstd"
      [] v = 99 -> "AES"
      [] OTHER -> "Unsupported"

(***************************************************************************)
(* read.rs: parse_extra_field.  The state of the loop is the descriptor,   *)
(* the cursor into file.extra_field and len_left; an error leaves the      *)
(* assignments made before it in the descriptor.                           *)
(***************************************************************************)
EofErr == Err("Io", "failed to fill whole buffer")

\* a field replaced whether it holds the sentinel or not
Zip64Field_always(st, field) ==
    IF ~st.res.ok THEN st
    ELSE IF st.cur + 8 > Len(st.file.extra_field) THEN [st EXCEPT !.res = EofErr]
    ELSE [st EXCEPT !.file = [st.file EXCEPT
                                ![field] = read_u64_le(st.file.extra_field, st.cur)],
                    !.cur = st.cur + 8,
                    !.len_left = st.len_left - 8]

\* one `if file.<field> == ZIP64_BYTES_THR { ... read_u64_le()? ... }` of the
\* ZIP64 extended information record
Zip64Field(st, field) ==
    IF ~st.res.ok \/ st.file[field] # ZIP64_BYTES_THR THEN st
    ELSE LET marked == IF field = "header_start" THEN st.file
                       ELSE [st.file EXCEPT !.large_file = TRUE]
         IN  IF st.cur + 8 > Len(st.file.extra_field)
             THEN [st EXCEPT !.file = marked, !.res = EofErr]
             ELSE [st EXCEPT !.file = [marked EXCEPT
                                         ![field] = read_u64_le(st.file.extra_field, st.cur)],
                             !.cur = st.cur + 8,
                             !.len_left = st.len_left - 8]

\* the AES record (0x9901)
AesField(st, len) ==
    LET ef == st.file.extra_field
        vendor_version == read_u16_le(ef, st.cur)
        vendor_id == read_u16_le(ef, st.cur + 2)
        aes_mode == ef[st.cur + 5]
        compression_method == CompressionMethod_from_u16(read_u16_le(ef, st.cur + 5))
    IN  IF len # 7
        THEN [st EXCEPT !.res = Err("UnsupportedArchive",
                                    "AES extra data field has an unsupported length")]
        ELSE IF st.cur + 7 > Len(ef) THEN [st EXCEPT !.res = EofErr]
        ELSE IF vendor_id # 17729
        THEN [st EXCEPT !.res = Err("InvalidArchive", "Invalid AES vendor")]
        ELSE IF vendor_version \notin {1, 2}
        THEN [st EXCEPT !.res = Err("InvalidArchive", "Invalid AES vendor version")]
        ELSE IF aes_mode \notin {1, 2, 3}
        THEN [st EXCEPT !.res = Err("InvalidArchive", "Invalid AES encryption strength")]
        ELSE [st EXCEPT !.file = [st.file EXCEPT
                                    !.aes_mode = <<aes_mode, vendor_version, compression_method>>,
                                    !.compression_method = compression_method],
                        !.cur = st.cur + 7]

\* ExtendedTimestamp::try_from_reader(reader, len): consumes len bytes
ExtendedTimestamp_try_from_reader(st, len) ==
    IF st.cur + len > Len(st.file.extra_field) THEN [st EXCEPT !.res = EofErr]
    ELSE [st EXCEPT !.file = [st.file EXCEPT !.extra_fields =
                                 Append(@, Slice(st.file.extra_field, st.cur, len))],
                    !.cur = st.cur + len,
                    !.len_left = 0]

RECURSIVE ParseExtraLoop(_, _)
\* the match on the record's kind
ParseExtraRecord(st0, kind, len) ==
    CASE kind = 1 ->
            Zip64Field(Zip64Field(Zip64Field(st0, "uncompressed_size"),
                                  "compressed_size"), "header_start")
      [] kind = 39169 -> AesField(st0, len)
      [] kind = 21589 -> ExtendedTimestamp_try_from_reader(st0, len)
      [] OTHER -> st0

\* after the match: an error ends the loop, otherwise the rest of the record
\* is skipped (len_left bytes from the cursor)
ParseExtraNext(st1) ==
    IF ~st1.res.ok THEN [file |-> st1.file, res |-> st1.res]
    ELSE ParseExtraLoop(st1.file,
                        IF st1.len_left > 0 THEN st1.cur + st1.len_left ELSE st1.cur)

ParseExtraLoop(file, pos) ==
    IF pos >= Len(file.extra_field) THEN [file |-> file, res |-> [ok |-> TRUE]]
    ELSE IF pos + 4 > Len(file.extra_field) THEN [file |-> file, res |-> EofErr]
    ELSE ParseExtraNext(ParseExtraRecord(
             [file |-> file, cur |-> pos + 4,
              len_left |-> read_u16_le(file.extra_field, pos + 2),
              res |-> [ok |-> TRUE]],
             read_u16_le(file.extra_field, pos),
             read_u16_le(file.extra_field, pos + 2)))

parse_extra_field(file) == ParseExtraLoop(file, 0)

RECURSIVE ParseExtraOffsets(_, _)
\* the offsets in the extra field at which the loop reads a record header,
\* from the iteration at pos on
ParseExtraOffsetsNext(st1, pos) ==
    <<pos>> \o (IF ~st1.res.ok THEN <<>>
               ELSE ParseExtraOffsets(st1.file,
                        IF st1.len_left > 0 THEN st1.cur + st1.len_left ELSE st1.cur))

ParseExtraOffsets(file, pos) ==
    IF pos >= Len(file.extra_field) THEN <<>>
    ELSE IF pos + 4 > Len(file.extra_field) THEN <<pos>>
    ELSE ParseExtraOffsetsNext(ParseExtraRecord(
             [file |-> file, cur |-> pos + 4,
              len_left |-> read_u16_le(file.extra_field, pos + 2),
              res |-> [ok |-> TRUE]],
             read_u16_le(file.extra_field, pos),
             read_u16_le(file.extra_field, pos + 2)), pos)

(***************************************************************************)
(* read.rs: central_header_to_zip_file at stream position pos.  The result *)
(* carries the descriptor and the position after the record.               *)
(***************************************************************************)
SizeOfCentralHeader == 46

\* the position after the central record at pos
CentralRecordEnd(f, pos) ==
    pos + SizeOfCentralHeader + read_u16_le(f, pos + 28) + read_u16_le(f, pos + 30)
        + read_u16_le(f, pos + 32)

\* the ZipFileData built from the fixed fields and the three variable ones
ZipFileData_new(f, pos, central_header_start, version_made_by, flags, file_name_length, extra_field_length) ==
    [system |-> version_made_by \div 256,
     version_made_by |-> version_made_by % 256,
     encrypted |-> flags % 2 = 1,
     using_data_descriptor |-> (flags \div 8) % 2 = 1,
     compression_method |-> CompressionMethod_from_u16(read_u16_le(f, pos + 10)),
     last_modified_time |-> <<read_u16_le(f, pos + 14), read_u16_le(f, pos + 12)>>,
     crc32 |-> read_u32_le(f, pos + 16),
     compressed_size |-> read_u32_le(f, pos + 20),
     uncompressed_size |-> read_u32_le(f, pos + 24),
     file_name |->
         IF (flags \div 2048) % 2 = 1
         THEN from_utf8_lossy(Slice(f, pos + SizeOfCentralHeader, file_name_length))
         ELSE from_cp437(Slice(f, pos + SizeOfCentralHeader, file_name_length)),
     file_name_raw |-> Slice(f, pos + SizeOfCentralHeader, file_name_length),
     extra_field |-> Slice(f, pos + SizeOfCentralHeader + file_name_length,
                           extra_field_length),
     file_comment |->
         IF (flags \div 2048) % 2 = 1
         THEN from_utf8_lossy(Slice(f, pos + SizeOfCentralHeader + file_name_length
                                         + extra_field_length, read_u16_le(f, pos + 32)))
         ELSE from_cp437(Slice(f, pos + SizeOfCentralHeader + file_name_length
                                    + extra_field_length, read_u16_le(f, pos + 32))),
     header_start |-> read_u32_le(f, pos + 42),
     central_header_start |-> central_header_start,
     data_start |-> <<>>,
     external_attributes |-> read_u32_le(f, pos + 38),
     large_file |-> FALSE,
     aes_mode |-> <<>>,
     extra_fields |-> <<>>]

\* `result.header_start.checked_add(archive_offset).ok_or(...)?; Ok(result)`
WithHeaderStart(file, shifted, next) ==
    IF shifted = <<>> THEN Err("InvalidArchive", "Archive header is too large")
    ELSE [ok |-> TRUE, file |-> [file EXCEPT !.header_start = shifted[1]], next |-> next]

\* what follows parse_extra_field in central_header_to_zip_file_inner
AfterExtraField(parsed, archive_offset, next) ==
    IF ~parsed.res.ok /\ parsed.res.err # "Io" THEN parsed.res
    ELSE IF parsed.file.compression_method = "AES" /\ parsed.file.aes_mode = <<>>
    THEN Err("InvalidArchive", "AES encryption without AES extra data field")
    ELSE WithHeaderStart(parsed.file,
                         checked_add(parsed.file.header_start, archive_offset), next)

central_header_to_zip_file_inner(f, pos, archive_offset, central_header_start) ==
    IF CentralRecordEnd(f, pos) > Len(f) THEN EofErr
    ELSE AfterExtraField(
             parse_extra_field(ZipFileData_new(f, pos, central_header_start,
                 read_u16_le(f, pos + 4), read_u16_le(f, pos + 8),
                 read_u16_le(f, pos + 28), read_u16_le(f, pos + 30))),
             archive_offset, CentralRecordEnd(f, pos))

central_header_to_zip_file(f, pos, archive_offset) ==
    IF pos + SizeOfMagic > Len(f) THEN EofErr
    ELSE IF ~MagicAt(f, pos, CENTRAL_DIRECTORY_HEADER_SIGNATURE)
    THEN Err("InvalidArchive", "Invalid Central Directory header")
    ELSE IF pos + SizeOfCentralHeader > Len(f) THEN EofErr
    ELSE central_header_to_zip_file_inner(f, pos, archive_offset, pos)

(***************************************************************************)
(* read.rs: ZipArchive::get_directory_info_zip32 / _zip64, get_metadata,   *)
(* ZipArchive::new.                                                        *)
(***************************************************************************)
\* the CentralDirectoryInfo for a checked archive_offset (None is <<>>)
Zip32DirectoryInfo(footer, archive_offset) ==
    IF archive_offset = <<>>
    THEN Err("InvalidArchive", "Invalid central directory size or offset")
    ELSE [ok |-> TRUE,
          archive_offset |-> archive_offset[1],
          directory_start |-> footer.central_directory_offset + archive_offset[1],
          number_of_files |-> footer.number_of_files_on_this_disk,
          disk_number |-> footer.disk_number,
          disk_with_central_directory |-> footer.disk_with_central_directory]

get_directory_info_zip32(footer, cde_start_pos) ==
    Zip32DirectoryInfo(footer,
        IF cde_start_pos < footer.central_directory_size THEN <<>>
        ELSE checked_sub(cde_start_pos - footer.central_directory_size,
                         footer.central_directory_offset))

\* the closure of get_directory_info_zip64 applied to one search result
Zip64DirectoryInfo(footer64, archive_offset, search_upper_bound, directory_start) ==
    IF directory_start = <<>>
    THEN Err("InvalidArchive", "Invalid central directory size or offset")
    ELSE IF directory_start[1] > search_upper_bound
    THEN Err("InvalidArchive", "Invalid central directory size or offset")
    ELSE IF footer64.number_of_files_on_this_disk > footer64.number_of_files
    THEN Err("InvalidArchive",
             "ZIP64 footer indicates more files on this disk than in the whole archive")
    ELSE IF footer64.version_needed_to_extract > footer64.version_made_by
    THEN Err("InvalidArchive", "ZIP64 footer indicates a new version is needed")
    ELSE [ok |-> TRUE,
          archive_offset |-> archive_offset,
          directory_start |-> directory_start[1],
          number_of_files |-> footer64.number_of_files,
          disk_number |-> footer64.disk_number,
          disk_with_central_directory |-> footer64.disk_with_central_directory]

\* Ok(results) is [ok |-> TRUE, results |-> ...]
\* get_directory_info_zip64 after the search
Zip64Results(search_results, search_upper_bound) ==
    IF ~search_results.ok THEN search_results
    ELSE [ok |-> TRUE,
          results |-> [i \in 1..Len(search_results.results) |->
                          Zip64DirectoryInfo(search_results.results[i].cde,
                              search_results.results[i].archive_offset,
                              search_upper_bound,
                              checked_add(search_results.results[i].cde.central_directory_offset,
                                          search_results.results[i].archive_offset))]]

\* get_directory_info_zip64 after the locator was read
Zip64AfterLocator(f, cde_start_pos, locator64) ==
    IF ~locator64.ok THEN locator64
    ELSE IF checked_sub(cde_start_pos, 60) = <<>>
    THEN Err("InvalidArchive", "File cannot contain ZIP64 central directory end")
    ELSE Zip64Results(
             Zip64CentralDirectoryEnd_find_and_parse(f,
                 locator64.end_of_central_directory_offset, cde_start_pos - 60),
             cde_start_pos - 60)

get_directory_info_zip64(f, footer, cde_start_pos) ==
    IF Len(f) - (20 + 22 + Len(footer.zip_file_comment)) < 0
    THEN Err("Io", "invalid seek to a negative or overflowing position")
    ELSE Zip64AfterLocator(f, cde_start_pos,
             Zip64CentralDirectoryEndLocator_parse(f,
                 Len(f) - (20 + 22 + Len(footer.zip_file_comment))))

\* the cross-check of one ZIP64 result against the ZIP32 result
CrossCheck(result, zip32_result) ==
    IF ~result.ok \/ ~zip32_result.ok THEN result
    ELSE IF /\ result.number_of_files # zip32_result.number_of_files
            /\ zip32_result.number_of_files # U16_MAX
    THEN Err("InvalidArchive", "ZIP32 and ZIP64 file counts don't match")
    ELSE IF /\ result.disk_number # zip32_result.disk_number
            /\ zip32_result.disk_number # U16_MAX
    THEN Err("InvalidArchive", "ZIP32 and ZIP64 disk numbers don't match")
    ELSE IF /\ result.disk_with_central_directory # zip32_result.disk_with_central_directory
            /\ zip32_result.disk_with_central_directory # U16_MAX
    THEN Err("InvalidArchive", "ZIP32 and ZIP64 last-disk numbers don't match")
    ELSE result

\* the candidate directory infos of get_metadata, ZIP64 ones first, ZIP32 last
\* `.unwrap_or_else(|e| vec![Err(e)])`
UnwrapResults(zip64) == IF zip64.ok THEN zip64.results ELSE <<zip64>>

CrossCheckAll(results, zip32_result) ==
    [i \in 1..Len(results) |-> CrossCheck(results[i], zip32_result)] \o <<zip32_result>>

DirInfos(f, footer, cde_start_pos) ==
    CrossCheckAll(UnwrapResults(get_directory_info_zip64(f, footer, cde_start_pos)),
                  get_directory_info_zip32(footer, cde_start_pos))

\* a map that keeps every inserted record, duplicates of a key included
IndexMap_push(files, file) == Append(files, file)

\* IndexMap::insert: a key already present keeps its place and gets the new value
IndexMap_insert(files, file) ==
    IF \E i \in 1..Len(files) : files[i].file_name = file.file_name
    THEN [i \in 1..Len(files) |->
             IF files[i].file_name = file.file_name THEN file ELSE files[i]]
    ELSE Append(files, file)

RECURSIVE ReadCentralDirectory(_, _, _, _, _)
\* one pass of the loop, given the result r of central_header_to_zip_file
ReadNextRecord(f, archive_offset, n, files, r) ==
    IF ~r.ok THEN r
    ELSE ReadCentralDirectory(f, r.next, archive_offset, n - 1,
                              IndexMap_insert(files, r.file))

ReadCentralDirectory(f, pos, archive_offset, n, files) ==
    IF n = 0 THEN [ok |-> TRUE, files |-> files]
    ELSE ReadNextRecord(f, archive_offset, n, files,
                        central_header_to_zip_file(f, pos, archive_offset))

\* a capacity that trusts the declared count
file_capacity_declared(dir_info) == dir_info.number_of_files

\* the capacity get_metadata passes to IndexMap::with_capacity
file_capacity(dir_info) ==
    IF dir_info.number_of_files > dir_info.directory_start THEN 0
    ELSE dir_info.number_of_files

\* the body of the `result.and_then(|dir_info| ...)` closure of get_metadata
SharedOf(dir_info, read) ==
    IF ~read.ok THEN read
    ELSE IF dir_info.disk_number # dir_info.disk_with_central_directory
    THEN Err("UnsupportedArchive", "Support for multi-disk files is not implemented")
    ELSE [ok |-> TRUE,
          files |-> read.files,
          offset |-> dir_info.archive_offset,
          dir_start |-> dir_info.directory_start]

ReadShared(f, dir_info) ==
    IF ~dir_info.ok THEN dir_info
    ELSE SharedOf(dir_info,
             ReadCentralDirectory(f, dir_info.directory_start, dir_info.archive_offset,
                                  dir_info.number_of_files, <<>>))

\* the first candidate that is Ok, whatever its dir_start
ChosenIndex_first(shareds) ==
    LET oks == {i \in 1..Len(shareds) : shareds[i].ok}
    IN  IF oks = {} THEN 0 ELSE SetMin(oks)

\* index of the candidate get_metadata chooses (max_by_key returns the last
\* maximum), 0 when no candidate is Ok
ChosenIndex(shareds) ==
    LET oks == {i \in 1..Len(shareds) : shareds[i].ok}
    IN  IF oks = {} THEN 0
        ELSE SetMax({i \in oks : \A j \in oks : shareds[j].dir_start <= shareds[i].dir_start})

\* a selection that returns the first error whatever its kind
SelectShared_first_error(shareds) ==
    IF ~shareds[1].ok /\ shareds[1].err = "Panic" THEN shareds[1]
    ELSE IF ChosenIndex(shareds) # 0 THEN shareds[ChosenIndex(shareds)]
    ELSE shareds[1]

\* the classification and selection at the end of get_metadata; a panic of
\* get_directory_info_zip64 leaves get_metadata as a panic
SelectShared(shareds) ==
    IF ~shareds[1].ok /\ shareds[1].err = "Panic" THEN shareds[1]
    ELSE IF ChosenIndex(shareds) # 0 THEN shareds[ChosenIndex(shareds)]
    ELSE IF \E i \in 1..Len(shareds) : shareds[i].err = "UnsupportedArchive"
    THEN SelectSeq(shareds, LAMBDA r : r.err = "UnsupportedArchive")[1]
    ELSE shareds[1]

ReadAll(f, dir_infos) == [i \in 1..Len(dir_infos) |-> ReadShared(f, dir_infos[i])]

get_metadata(f, footer, cde_start_pos) ==
    SelectShared(ReadAll(f, DirInfos(f, footer, cde_start_pos)))

ArchiveOf(shared, comment) ==
    IF ~shared.ok THEN shared
    ELSE [ok |-> TRUE,
          files |-> shared.files,
          offset |-> shared.offset,
          dir_start |-> shared.dir_start,
          comment |-> comment]

OpenFound(f, found) ==
    IF ~found.ok THEN found
    ELSE ArchiveOf(get_metadata(f, found.cde, found.cde_start_pos),
                   found.cde.zip_file_comment)

ZipArchive_new(f) == OpenFound(f, Zip32CentralDirectoryEnd_find_and_parse(f))

\* ZipArchive::len and ZipArchive::offset
ZipArchive_len(archive) == Len(archive.files)
ZipArchive_offset(archive) == archive.offset

(***************************************************************************)
(* read.rs: find_content, make_crypto_reader, make_reader,                 *)
(* by_index_with_optional_password.                                        *)
(***************************************************************************)
SizeOfLocalHeader == 30

\* io::Take over the reader positioned at start: at most limit bytes of f
Take(f, start, limit) ==
    IF start >= Len(f) THEN <<>>
    ELSE Slice(f, start, Min(limit, Len(f) - start))

\* find_content: the content window of the entry, and the descriptor with its
\* data_start cell filled in
\* find_content once the local header's magic was checked
ContentAt(data, f, data_start) ==
    [ok |-> TRUE,
     data |-> [data EXCEPT !.data_start = <<data_start>>],
     limit_reader |-> Take(f, data_start, data.compressed_size)]

find_content(data, f) ==
    IF data.header_start + SizeOfMagic > Len(f) THEN EofErr
    ELSE IF ~MagicAt(f, data.header_start, LOCAL_FILE_HEADER_SIGNATURE)
    THEN Err("InvalidArchive", "Invalid local file header")
    ELSE IF data.data_start # <<>> THEN ContentAt(data, f, data.data_start[1])
    ELSE IF data.header_start + SizeOfLocalHeader > Len(f) THEN EofErr
    ELSE ContentAt(data, f,
             data.header_start + SizeOfLocalHeader
                 + read_u16_le(f, data.header_start + 26)
                 + read_u16_le(f, data.header_start + 28))

\* ZipCryptoReader::new(reader, password).validate(validator): the 12-byte
\* encryption header is read and its last byte, decrypted with the key, is
\* compared with the validator byte.  The cipher is a stand-in: a password is
\* a key in 1..255 and decryption adds the key modulo 256.
ZipCryptoHeaderSize == 12

ZipCrypto_validate(reader, password, validator) ==
    IF Len(reader) < ZipCryptoHeaderSize THEN EofErr
    ELSE IF (reader[ZipCryptoHeaderSize] + password) % 256 # validator
    THEN Err("InvalidPassword", "")
    ELSE [ok |-> TRUE,
          reader |-> [kind |-> "ZipCrypto", key |-> password,
                      vendor_version |-> 0,
                      content |-> SubSeq(reader, ZipCryptoHeaderSize + 1, Len(reader))]]

\* AesMode::salt_length
salt_length(aes_mode) == CASE aes_mode = 1 -> 8 [] aes_mode = 2 -> 12 [] OTHER -> 16

\* AesReader::new(reader, aes_mode, compressed_size).validate(password): the salt
\* and the two-byte password verification value are read; the stand-in
\* derivation is that the first verification byte plus the key gives the second
Aes_validate(reader, aes_mode, vendor_version, password) ==
    LET n == salt_length(aes_mode)
    IN  IF Len(reader) < n + 2 THEN EofErr
        ELSE IF (reader[n + 1] + password) % 256 # reader[n + 2]
        THEN Err("InvalidPassword", "")
        ELSE [ok |-> TRUE,
              reader |-> [kind |-> "Aes", key |-> password,
                          vendor_version |-> vendor_version,
                          content |-> SubSeq(reader, n + 3, Len(reader))]]

\* password is <<>> (None) or <<key>>; aes_info is <<>> or a triple
make_crypto_reader(compression_method, crc32, last_modified_time, using_data_descriptor, reader, password, aes_info) ==
    IF compression_method = "Unsupported"
    THEN Err("UnsupportedArchive", "Compression method not supported")
    ELSE IF password # <<>> /\ aes_info # <<>>
    THEN Aes_validate(reader, aes_info[1], aes_info[2], password[1])
    ELSE IF password # <<>>
    THEN ZipCrypto_validate(reader, password[1],
             IF using_data_descriptor THEN last_modified_time[2] \div 256
             ELSE crc32 \div 16777216)
    ELSE IF aes_info # <<>> THEN Err("InvalidPassword", "")
    ELSE [ok |-> TRUE,
          reader |-> [kind |-> "Plaintext", key |-> 0, vendor_version |-> 0,
                      content |-> reader]]

\* by_index_with_optional_password on the archive opened over f: the result, and
\* the archive afterwards (find_content fills the entry's data_start)
\* the ZipFile by_index_with_optional_password returns
ZipFileOf(after, data, crypto) ==
    IF ~crypto.ok THEN [res |-> crypto, archive |-> after]
    ELSE [res |-> [ok |-> TRUE, data |-> data,
                   crypto_reader |-> crypto.reader, reader |-> "NoReader"],
          archive |-> after]

OpenContent(archive, file_number, found, password) ==
    IF ~found.ok THEN [res |-> found, archive |-> archive]
    ELSE ZipFileOf([archive EXCEPT !.files[file_number + 1] = found.data], found.data,
             make_crypto_reader(found.data.compression_method, found.data.crc32,
                 found.data.last_modified_time, found.data.using_data_descriptor,
                 found.limit_reader, password, found.data.aes_mode))

by_index_with_optional_password(archive, f, file_number, password) ==
    IF file_number >= Len(archive.files)
    THEN [res |-> Err("FileNotFound", ""), archive |-> archive]
    ELSE IF password = <<>> /\ archive.files[file_number + 1].encrypted
    THEN [res |-> Err("UnsupportedArchive", "Password required to decrypt file"),
          archive |-> archive]
    ELSE OpenContent(archive, file_number,
             find_content(archive.files[file_number + 1], f),
             IF archive.files[file_number + 1].encrypted THEN password ELSE <<>>)

(***************************************************************************)
(* Archives.  An entry is described by                                     *)
(*   [name, flags, method, crc, data, usize, extra, time]                  *)
(* and laid out as the parsers above read it: local header + data for each *)
(* entry, then the central directory, then the end records.                *)
(***************************************************************************)
RECURSIVE Concat(_)
Concat(ss) == IF ss = <<>> THEN <<>> ELSE Head(ss) \o Concat(Tail(ss))

LocalRecord(e) ==
    LOCAL_FILE_HEADER_SIGNATURE \o u16_to_le(20) \o u16_to_le(e.flags)
        \o u16_to_le(e.method) \o u16_to_le(e.time) \o u16_to_le(33)
        \o u32_to_le(e.crc) \o u32_to_le(Len(e.data)) \o u32_to_le(e.usize)
        \o u16_to_le(Len(e.name)) \o u16_to_le(0) \o e.name \o e.data

CentralRecord(e, offset) ==
    CENTRAL_DIRECTORY_HEADER_SIGNATURE \o u16_to_le(788) \o u16_to_le(20)
        \o u16_to_le(e.flags) \o u16_to_le(e.method) \o u16_to_le(e.time)
        \o u16_to_le(33) \o u32_to_le(e.crc) \o u32_to_le(Len(e.data))
        \o u32_to_le(e.usize) \o u16_to_le(Len(e.name)) \o u16_to_le(Len(e.extra))
        \o u16_to_le(0) \o u16_to_le(0) \o u16_to_le(0) \o u32_to_le(0)
        \o u32_to_le(offset) \o e.name \o e.extra

Zip32End(count, size, offset, comment) ==
    CENTRAL_DIRECTORY_END_SIGNATURE \o u16_to_le(0) \o u16_to_le(0)
        \o u16_to_le(count) \o u16_to_le(count) \o u32_to_le(size)
        \o u32_to_le(offset) \o u16_to_le(Len(comment)) \o comment

Zip64End(count, size, offset) ==
    ZIP64_CENTRAL_DIRECTORY_END_SIGNATURE \o u64_to_le(44) \o u16_to_le(45)
        \o u16_to_le(45) \o u32_to_le(0) \o u32_to_le(0) \o u64_to_le(count)
        \o u64_to_le(count) \o u64_to_le(size) \o u64_to_le(offset)

Zip64Locator(offset) ==
    ZIP64_CENTRAL_DIRECTORY_END_LOCATOR_SIGNATURE \o u32_to_le(0)
        \o u64_to_le(offset) \o u32_to_le(1)

Locals(es) == Concat([i \in 1..Len(es) |-> LocalRecord(es[i])])
LocalOffset(es, i) == Len(Locals(SubSeq(es, 1, i - 1)))
Centrals(es) == Concat([i \in 1..Len(es) |-> CentralRecord(es[i], LocalOffset(es, i))])

\* a well-formed ZIP32 archive; dsize and doffset are added to the recorded
\* central directory size and offset, count is the recorded number of entries
Zip32Archive(es, count, dsize, doffset, comment) ==
    Locals(es) \o Centrals(es)
        \o Zip32End(count, Len(Centrals(es)) + dsize, Len(Locals(es)) + doffset, comment)

\* a well-formed ZIP64 archive: the ZIP32 end record repeats the ZIP64 one
Zip64Archive(es) ==
    Locals(es) \o Centrals(es)
        \o Zip64End(Len(es), Len(Centrals(es)), Len(Locals(es)))
        \o Zip64Locator(Len(Locals(es)) + Len(Centrals(es)))
        \o Zip32End(Len(es), Len(Centrals(es)), Len(Locals(es)), <<>>)

\* by_name_with_optional_password
get_index_of(archive, name) ==
    LET hits == {i \in 1..Len(archive.files) : archive.files[i].file_name = name}
    IN  IF hits = {} THEN <<>> ELSE <<(CHOOSE i \in hits : TRUE) - 1>>

by_name_with_optional_password(archive, f, name, password) ==
    IF get_index_of(archive, name) = <<>>
    THEN [res |-> Err("FileNotFound", ""), archive |-> archive]
    ELSE by_index_with_optional_password(archive, f, get_index_of(archive, name)[1], password)

(***************************************************************************)
(* The entries and archives the specifications draw from.                  *)
(***************************************************************************)
RECURSIVE SumSeq(_)
SumSeq(q) == IF q = <<>> THEN 0 ELSE Head(q) + SumSeq(Tail(q))

\* the CRC-32 primitive, by a stand-in checksum
crc32(data) == (SumSeq(data) + 7 * Len(data)) % 65536

Key == 5
AesExtra(inner) == u16_to_le(39169) \o u16_to_le(7) \o u16_to_le(2) \o <<65, 69>>
                       \o <<1>> \o u16_to_le(inner)

StoredEntry(name, data) ==
    [name |-> name, flags |-> 0, method |-> 0, crc |-> crc32(data), data |-> data,
     usize |-> Len(data), extra |-> <<>>, time |-> 0]

\* "e": ZipCrypto-encrypted with Key; "y": AES-encrypted with Key;
\* "x": not encrypted but carrying an AES extra; "u": method 1 (Shrink)
OpenPool ==
    { StoredEntry(<<97>>, <<1, 2>>),
      StoredEntry(<<97>>, <<9>>),
      StoredEntry(<<98>>, <<7>>),
      [StoredEntry(<<101>>, Zeros(11) \o <<(256 - Key) % 256, 252, 253>>)
          EXCEPT !.flags = 1, !.usize = 2],
      [StoredEntry(<<121>>, Zeros(8) \o <<10, 10 + Key, 1, 2>>)
          EXCEPT !.flags = 1, !.method = 99, !.extra = AesExtra(0), !.usize = 2],
      [StoredEntry(<<120>>, <<1, 2>>) EXCEPT !.extra = AesExtra(0)],
      [StoredEntry(<<117>>, <<1, 2>>) EXCEPT !.method = 1] }

SeqsUpTo(S, n) == UNION {[1..k -> S] : k \in 0..n}

\* prefixes for PrependJunk; the last is sixty bytes followed by a ZIP64
\* locator naming offset 100
JunkPrefixes == { <<7>>, <<80, 75, 3>>, Zeros(60) \o Zip64Locator(100) }

\* a ZIP32 archive whose end record names disk 1 as the disk of the directory
MultiDiskArchive(es) ==
    Locals(es) \o Centrals(es)
        \o [Zip32End(Len(es), Len(Centrals(es)), Len(Locals(es)), <<>>) EXCEPT ![7] = 1]

\* an archive with two central directories, of the entries ds1 and ds2 laid
\* over the locals of ds1: the ZIP64 end record names the one at
\* Len(Locals(ds1)) + at64, the ZIP32 end record the other
TwoDirectoryArchive(ds1, ds2, at64) ==
    Locals(ds1) \o Centrals(ds1) \o Centrals(ds2)
        \o Zip64End(Len(ds1),
                    IF at64 = 0 THEN Len(Centrals(ds1)) ELSE Len(Centrals(ds2)),
                    Len(Locals(ds1)) + at64)
        \o Zip64Locator(Len(Locals(ds1)) + Len(Centrals(ds1)) + Len(Centrals(ds2)))
        \o Zip32End(Len(ds1),
                    (IF at64 = 0 THEN Len(Centrals(ds2))
                     ELSE Len(Centrals(ds1)) + Len(Centrals(ds2))) + 76,
                    Len(Locals(ds1)) + (IF at64 = 0 THEN Len(Centrals(ds1)) ELSE 0),
                    <<>>)

\* files for the search of the end record: an archive followed by zeros that
\* put its end record at, across and below the edge of the last window (also
\* with zeros before it, so that the window before the last is a whole one), by a
\* record that is cut short, by a record whose comment is cut short, and by
\* a second whole record; and files without a record that parses
TailBase == Zip32Archive(<<StoredEntry(<<97>>, <<1, 2>>)>>, 1, 0, 0, <<>>)

SearchFiles ==
    {TailBase \o Zeros(k) : k \in 490..494}
    \cup {Zeros(450) \o TailBase \o Zeros(k) : k \in 491..493}
    \cup {TailBase \o Zeros(k) \o CENTRAL_DIRECTORY_END_SIGNATURE \o Zeros(10) :
             k \in {0, 500}}
    \cup {TailBase \o [Zip32End(0, 0, 0, <<>>) EXCEPT ![21] = 5] \o <<0, 0>>,
          TailBase \o Zeros(500) \o Zip32End(0, 0, 0, <<>>),
          Zeros(30),
          Zeros(600) \o CENTRAL_DIRECTORY_END_SIGNATURE \o Zeros(10)}

\* archives of several entries draw them from the entries named "a" and "b"
\* an archive whose central directory comes first, at offset 0, and declares
\* count entries; the local records follow it
DirectoryFirstArchive(es, count) ==
    Concat([i \in 1..Len(es) |->
               CentralRecord(es[i], Len(Centrals(es)) + LocalOffset(es, i))])
        \o Locals(es)
        \o Zip32End(count, Len(Centrals(es)) + Len(Locals(es)), 0, <<>>)

OpenArchives ==
    {Zip32Archive(es, Len(es), 0, 0, <<>>) : es \in SeqsUpTo(OpenPool, 1)}
    \cup {Zip32Archive(es, Len(es), 0, 0, <<>>) :
             es \in SeqsUpTo({e \in OpenPool : e.name \in {<<97>>, <<98>>}}, MaxEntries)}
    \cup {Zip64Archive(es) : es \in SeqsUpTo(OpenPool, 1)}
    \cup {Zip32Archive(es, Len(es), d[1], d[2], <<33>>) :
             es \in SeqsUpTo(OpenPool, 1), d \in {<<1, 0>>, <<0, 1>>}}
    \cup {Zip32Archive(<<>>, 0, 1, 0, <<>>)}
    \cup {MultiDiskArchive(es) : es \in SeqsUpTo(OpenPool, 1)}
    \cup {TwoDirectoryArchive(<<StoredEntry(<<97>>, <<1, 2>>)>>,
                              <<StoredEntry(<<98>>, <<1, 2>>)>>, at64) :
             at64 \in {0, Len(Centrals(<<StoredEntry(<<97>>, <<1, 2>>)>>))}}
    \cup UNION {{DirectoryFirstArchive(es, Len(es)), DirectoryFirstArchive(es, 3)} :
                   es \in {<<StoredEntry(<<97>>, <<1, 2>>)>>,
                           <<StoredEntry(<<97>>, <<1, 2>>), StoredEntry(<<98>>, <<7>>)>>}}
    \cup SearchFiles

Passwords == {<<>>, <<Key>>, <<Key + 1>>}

NotOpened == Err("NotOpened", "")
NotRun == Err("NotRun", "")
NotCalled == Err("NotCalled", "")
Running == Err("Running", "")
Stages == {"plan", "read", "mkdir", "decompress", "materialize"}
Idle == [busy |-> FALSE]
EmptyDisk == [dirs |-> {}, files |-> << >>]

\* before extract_pipelined is called
PipeIdle ==
    /\ sequential = NotRun
    /\ outcome = NotCalled
    /\ stage_results = [s \in Stages |-> Running]
    /\ dirs_task = <<>>
    /\ plan = [phase |-> "collect", entries |-> <<>>, unsent |-> {}]
    /\ paths = <<>>
    /\ stops_prior = <<>>
    /\ stops = <<>>
    /\ processed = <<>>
    /\ chunks = [received |-> FALSE, todo |-> <<>>]
    /\ mkdir_workers = [w \in 1..num_cpus |-> Idle]
    /\ extract_workers = [w \in 1..num_cpus |-> Idle]
    /\ disk = EmptyDisk
    /\ tmpfiles = {}
    /\ completed_paths = {}

\* a reader at its start, before read_zipfile_from_stream was called on it
NoStream == [pos |-> 0, file |-> <<>>, results |-> <<>>]

NoImm == [len |-> 0, pos |-> 0, calls |-> 0, res |-> NotOpened]

NoReading == [file |-> NotOpened, results |-> <<>>]

NoScan == [pc |-> "idle", window_start |-> 0, searched |-> <<>>, res |-> NotOpened]

NoSearch == [called |-> FALSE, nominal_offset |-> 0, search_upper_bound |-> 0,
             res |-> NotOpened]

NoFinders == <<>>

NoEntry == [file |-> <<>>, parsed |-> FALSE, res |-> NotOpened, after |-> <<>>,
            offsets |-> <<>>]

NoBlock == [host |-> "little", kind |-> "none", value |-> <<>>, written |-> <<>>,
            parsed |-> NotOpened]

NotMerged == [at |-> 0, res |-> NotOpened, new_files |-> <<>>, written |-> <<>>]

NoCall == [by |-> "none", file_number |-> 0, password |-> <<>>, res |-> NotOpened]

\* the decoded names of the n central-directory records starting at pos
RECURSIVE DeclaredNames(_, _, _, _)
DeclaredNamesFrom(f, archive_offset, n, r) ==
    <<r.file.file_name>> \o DeclaredNames(f, r.next, archive_offset, n - 1)

DeclaredNames(f, pos, archive_offset, n) ==
    IF n = 0 THEN <<>>
    ELSE DeclaredNamesFrom(f, archive_offset, n,
                           central_header_to_zip_file(f, pos, archive_offset))

\* a record of the locals of ZipArchive::new and get_metadata on f: the end
\* record found, whether some ZIP64 candidate was valid, and the count and
\* names the chosen candidate declares
NothingSeen ==
    [found |-> FALSE, cde_start_pos |-> 0, central_directory_offset |-> 0,
     central_directory_size |-> 0, valid_zip64 |-> FALSE, chosen |-> FALSE,
     number_of_files |-> 0, names |-> <<>>, candidates |-> <<>>]

\* for each candidate that reached the closure of get_metadata: what it
\* declares and the capacity its map was created with
SeenCandidates(infos) ==
    [i \in 1..Len(infos) |->
        IF ~infos[i].ok THEN <<>>
        ELSE <<[number_of_files |-> infos[i].number_of_files,
                directory_start |-> infos[i].directory_start,
                file_capacity |-> file_capacity(infos[i])]>>]

SeenChosen(f, found, valid_zip64, infos, index) ==
    [found |-> TRUE,
     cde_start_pos |-> found.cde_start_pos,
     central_directory_offset |-> found.cde.central_directory_offset,
     central_directory_size |-> found.cde.central_directory_size,
     valid_zip64 |-> valid_zip64,
     chosen |-> index # 0,
     number_of_files |-> IF index = 0 THEN 0 ELSE infos[index].number_of_files,
     names |-> IF index = 0 THEN <<>>
               ELSE DeclaredNames(f, infos[index].directory_start,
                        infos[index].archive_offset, infos[index].number_of_files),
     candidates |-> SeenCandidates(infos)]

SeenInfos(f, found, valid_zip64, infos) ==
    SeenChosen(f, found, valid_zip64, infos,
        IF ~infos[1].ok /\ infos[1].err = "Panic" THEN 0
        ELSE ChosenIndex(ReadAll(f, infos)))

SeenZip64(f, found, zip64) ==
    SeenInfos(f, found,
        zip64.ok /\ \E i \in 1..Len(zip64.results) : zip64.results[i].ok,
        CrossCheckAll(UnwrapResults(zip64),
                      get_directory_info_zip32(found.cde, found.cde_start_pos)))

SeenFound(f, found) ==
    IF ~found.ok THEN NothingSeen
    ELSE SeenZip64(f, found, get_directory_info_zip64(f, found.cde, found.cde_start_pos))

Seen(f) == SeenFound(f, Zip32CentralDirectoryEnd_find_and_parse(f))

(***************************************************************************)
(* The archive-opening specification.                                      *)
(***************************************************************************)
OpenInit ==
    /\ bytes \in OpenArchives
    /\ zip = NotOpened
    /\ orig = NotOpened
    /\ shift = 0
    /\ opened = NoCall
    /\ seen = NothingSeen
    /\ stream = NoStream
    /\ merged = NotMerged
    /\ block = NoBlock
    /\ entry = NoEntry
    /\ finders = NoFinders
    /\ search = NoSearch
    /\ scan = NoScan
    /\ reading = NoReading
    /\ imm = NoImm
    /\ num_cpus = 1
    /\ PipeIdle

\* ZipArchive::new(reader)
New ==
    /\ zip = NotOpened
    /\ zip' = ZipArchive_new(bytes)
    /\ seen' = Seen(bytes)
    /\ UNCHANGED <<bytes, orig, shift, opened, callVars, pipeVars>>

\* ZipArchive::by_index / by_index_decrypt
ByIndex ==
    /\ zip.ok
    /\ \E file_number \in 0..Len(zip.files), password \in Passwords :
          LET r == by_index_with_optional_password(zip, bytes, file_number, password)
          IN  /\ zip' = r.archive
              /\ opened' = [by |-> "index", file_number |-> file_number,
                            password |-> password, res |-> r.res]
    /\ UNCHANGED <<bytes, orig, shift, seen, callVars, pipeVars>>

\* ZipArchive::by_name / by_name_decrypt
ByName ==
    /\ zip.ok
    /\ \E file_number \in 0..(Len(zip.files) - 1), password \in Passwords :
          LET r == by_name_with_optional_password(zip, bytes,
                       zip.files[file_number + 1].file_name, password)
          IN  /\ zip' = r.archive
              /\ opened' = [by |-> "name", file_number |-> file_number,
                            password |-> password, res |-> r.res]
    /\ UNCHANGED <<bytes, orig, shift, seen, callVars, pipeVars>>

\* the closure of merge_contents on one descriptor whose data_start is left
\* as it was
merge_file_keeps_data_start(f, new_initial_header_start) ==
    IF checked_add(f.header_start, new_initial_header_start) = <<>>
    THEN Err("InvalidArchive", "new header start from merge would have been too large")
    ELSE [ok |-> TRUE,
          file |-> [f EXCEPT
              !.header_start = checked_add(f.header_start, new_initial_header_start)[1],
              !.central_header_start = 0]]

\* the closure merge_contents applies to each descriptor of the cloned map
merge_file(f, new_initial_header_start) ==
    IF checked_add(f.header_start, new_initial_header_start) = <<>>
    THEN Err("InvalidArchive", "new header start from merge would have been too large")
    ELSE IF f.data_start = <<>>
    THEN [ok |-> TRUE,
          file |-> [f EXCEPT
              !.header_start = checked_add(f.header_start, new_initial_header_start)[1],
              !.central_header_start = 0]]
    ELSE IF checked_add(f.data_start[1], new_initial_header_start) = <<>>
    THEN Err("InvalidArchive", "new data start from merge would have been too large")
    ELSE [ok |-> TRUE,
          file |-> [f EXCEPT
              !.header_start = checked_add(f.header_start, new_initial_header_start)[1],
              !.central_header_start = 0,
              !.data_start = checked_add(f.data_start[1], new_initial_header_start)]]

\* values_mut().try_for_each: the first error in map order, or every
\* descriptor updated
MergeFiles(files, new_initial_header_start) ==
    IF \E i \in 1..Len(files) : ~merge_file(files[i], new_initial_header_start).ok
    THEN [res |-> merge_file(files[SetMin({i \in 1..Len(files) :
                      ~merge_file(files[i], new_initial_header_start).ok})],
                      new_initial_header_start),
          new_files |-> <<>>]
    ELSE [res |-> Ok,
          new_files |-> [i \in 1..Len(files) |->
                            merge_file(files[i], new_initial_header_start).file]]

\* ZipArchive::merge_contents(w), w at position at: the result, the bytes w
\* received, and the archive afterwards (the descriptors are updated in a
\* clone of the map)
merge_contents(archive, f, at) ==
    IF archive.files = <<>>
    THEN [at |-> at, res |-> Ok, new_files |-> <<>>, written |-> <<>>, archive |-> archive]
    ELSE IF ~MergeFiles(archive.files, at).res.ok
    THEN [at |-> at, res |-> MergeFiles(archive.files, at).res, new_files |-> <<>>,
          written |-> <<>>, archive |-> archive]
    ELSE [at |-> at, res |-> Ok, new_files |-> MergeFiles(archive.files, at).new_files,
          written |-> Take(f, 0, archive.dir_start), archive |-> archive]

\* positions of the writer handed to merge_contents
MergePositions == {0, 7, U64_MAX - 40, U64_MAX}

MergeContents ==
    /\ zip.ok
    /\ \E at \in MergePositions :
          /\ merged' = [k \in {"at", "res", "new_files", "written"} |->
                            merge_contents(zip, bytes, at)[k]]
          /\ zip' = merge_contents(zip, bytes, at).archive
    /\ UNCHANGED <<bytes, orig, shift, opened, seen, stream, block, entry, finders, search, scan, reading, imm, pipeVars>>

\* the environment prepends junk to the file of an archive that parsed; the
\* archive is then opened again
PrependJunk ==
    /\ zip.ok
    /\ shift = 0
    /\ \E junk \in JunkPrefixes :
          /\ bytes' = junk \o bytes
          /\ shift' = Len(junk)
    /\ orig' = zip
    /\ zip' = NotOpened
    /\ opened' = NoCall
    /\ seen' = NothingSeen
    /\ UNCHANGED <<callVars, pipeVars>>

(***************************************************************************)
(* Paths and the directory that extraction writes into.  A relative path   *)
(* is the entry's name; on disk it is known by its components.  The disk   *)
(* is [dirs, files]: the set of directories below the target directory     *)
(* and the content of each file.                                           *)
(***************************************************************************)
RECURSIVE SplitAt(_, _, _)
SplitAt(name, i, cur) ==
    IF i > Len(name) THEN <<cur>>
    ELSE IF name[i] = 47 THEN <<cur>> \o SplitAt(name, i + 1, <<>>)
    ELSE SplitAt(name, i + 1, Append(cur, name[i]))

\* Path::components: repeated and trailing separators and "." vanish
Components(name) ==
    SelectSeq(SplitAt(name, 1, <<>>), LAMBDA c : c # <<>> /\ c # <<46>>)

RECURSIVE Escapes(_, _)
Escapes(comps, depth) ==
    IF comps = <<>> THEN FALSE
    ELSE IF Head(comps) = <<46, 46>>
    THEN depth = 0 \/ Escapes(Tail(comps), depth - 1)
    ELSE Escapes(Tail(comps), depth + 1)

\* ZipFileData::enclosed_name: None (<<>>) for a name with a NUL, an
\* absolute name, or one that escapes the base; otherwise the name as a path
enclosed_name(file_name) ==
    IF \E i \in 1..Len(file_name) : file_name[i] = 0 THEN <<>>
    ELSE IF file_name # <<>> /\ file_name[1] = 47 THEN <<>>
    ELSE IF Escapes(Components(file_name), 0) THEN <<>>
    ELSE <<file_name>>

\* ZipFile::is_dir: the name ends with '/' or '\'
is_dir(file_name) ==
    file_name # <<>> /\ file_name[Len(file_name)] \in {47, 92}

\* relative_path.to_string_lossy().ends_with('/')
ends_with_slash(path) == path # <<>> /\ path[Len(path)] = 47

Prefix(p, k) == SubSeq(p, 1, k)
Parent(p) == Prefix(p, Len(p) - 1)
Exists(d, p) == p = <<>> \/ p \in d.dirs \/ p \in DOMAIN d.files
IsDirectory(d, p) == p = <<>> \/ p \in d.dirs
IoErr(kind) == Err("Io", kind)

\* the error of walking to the parent of p, or <<>>: the first ancestor
\* that is not a directory is missing (NotFound) or a file (NotADirectory)
WalkError(d, p) ==
    IF \A k \in 1..(Len(p) - 1) : IsDirectory(d, Prefix(p, k)) THEN <<>>
    ELSE IF Exists(d, Prefix(p, SetMin({k \in 1..(Len(p) - 1) :
                                           ~IsDirectory(d, Prefix(p, k))})))
    THEN <<IoErr("NotADirectory")>>
    ELSE <<IoErr("NotFound")>>

\* fs::create_dir(directory.join(p))
create_dir(d, p) ==
    IF WalkError(d, p) # <<>> THEN WalkError(d, p)[1]
    ELSE IF Exists(d, p) THEN IoErr("AlreadyExists")
    ELSE [ok |-> TRUE, disk |-> [d EXCEPT !.dirs = @ \cup {p}]]

\* fs::create_dir_all(directory.join(p))
RECURSIVE create_dir_all_from(_, _, _)
create_dir_all_from(d, p, k) ==
    IF k > Len(p) THEN [ok |-> TRUE, disk |-> d]
    ELSE IF IsDirectory(d, Prefix(p, k)) THEN create_dir_all_from(d, p, k + 1)
    ELSE IF ~create_dir(d, Prefix(p, k)).ok THEN create_dir(d, Prefix(p, k))
    ELSE create_dir_all_from(create_dir(d, Prefix(p, k)).disk, p, k + 1)

create_dir_all(d, p) == create_dir_all_from(d, p, 1)

\* a file's bytes: data followed by zeros up to len; data ends with a
\* byte that is not zero
StripZeros(b) == SubSeq(b, 1, SetMax({0} \cup {i \in 1..Len(b) : b[i] # 0}))

ContentOf(b) == [data |-> StripZeros(b), len |-> Len(b)]
Expand(c) == c.data \o Zeros(c.len - Len(c.data))
ByteAt(c, i) == IF i <= Len(c.data) THEN c.data[i] ELSE 0
EmptyContent == [data |-> <<>>, len |-> 0]

WithFile(d, p, c) ==
    [d EXCEPT !.files = [q \in DOMAIN d.files \cup {p} |->
                            IF q = p THEN c ELSE d.files[q]]]

\* fs::File::create(directory.join(p)): the file exists and is empty
File_create(d, p) ==
    IF WalkError(d, p) # <<>> THEN WalkError(d, p)[1]
    ELSE IF IsDirectory(d, p) THEN IoErr("IsADirectory")
    ELSE [ok |-> TRUE, disk |-> WithFile(d, p, EmptyContent)]

(***************************************************************************)
(* Decompression and the checksum.  The codecs are stand-ins with the      *)
(* shape of the real ones: a compressed stream is a list of runs           *)
(* <<1, count lo, count hi, byte>> closed by the end marker <<0>>, and     *)
(* whatever follows the end marker is not read.                            *)
(***************************************************************************)
AppendRun(out, n, b) ==
    IF b = 0 \/ n = 0 THEN [out EXCEPT !.len = @ + n]
    ELSE [data |-> Expand(out) \o [i \in 1..n |-> b], len |-> out.len + n]

RECURSIVE InflateFrom(_, _, _)
InflateFrom(c, i, out) ==
    IF i > c.len THEN IoErr("corrupt deflate stream")
    ELSE IF ByteAt(c, i) = 0 THEN [ok |-> TRUE, content |-> out]
    ELSE IF ByteAt(c, i) # 1 \/ i + 3 > c.len THEN IoErr("corrupt deflate stream")
    ELSE InflateFrom(c, i + 4,
             AppendRun(out, ByteAt(c, i + 1) + 256 * ByteAt(c, i + 2), ByteAt(c, i + 3)))

\* reading a decoder over the source c to its end
Decode(compression_method, c) ==
    IF compression_method = "Stored" THEN [ok |-> TRUE, content |-> c]
    ELSE InflateFrom(c, 1, EmptyContent)

crc32_of(c) == (SumSeq(c.data) + 7 * c.len) % 65536

\* CryptoReader::read to the end; the ciphers are the stand-ins of
\* make_crypto_reader: decryption adds the key modulo 256
CryptoReader_read(r) ==
    IF r.kind = "Plaintext" THEN ContentOf(r.content)
    ELSE ContentOf([i \in 1..Len(r.content) |-> (r.content[i] + r.key) % 256])

\* make_reader
make_reader(compression_method, crc, reader) ==
    IF compression_method \in {"Stored", "Deflated", "Deflate64", "Bzip2", "Zstd", "Lzma"}
    THEN [ok |-> TRUE,
          reader |-> [method |-> compression_method, check |-> crc,
                      ae2_encrypted |-> reader.kind = "Aes" /\ reader.vendor_version = 2,
                      inner |-> CryptoReader_read(reader)]]
    ELSE Err("UnsupportedArchive", "Compression method not supported")

\* Crc32Reader::read at the end of the stream: the bytes were handed out,
\* then the checksum is compared
Crc32Reader_end(reader, decoded) ==
    IF ~decoded.ok THEN decoded @@ [written |-> EmptyContent]
    ELSE IF ~reader.ae2_encrypted /\ crc32_of(decoded.content) # reader.check
    THEN IoErr("Invalid checksum") @@ [written |-> decoded.content]
    ELSE decoded

\* ZipFileReader::read to the end
ZipFileReader_read(reader) ==
    Crc32Reader_end(reader, Decode(reader.method, reader.inner))

\* ZipFile::read to the end: get_reader makes the reader on the first read
ZipFile_opened(made) ==
    IF ~made.ok THEN made @@ [written |-> EmptyContent]
    ELSE ZipFileReader_read(made.reader)

ZipFile_read(file) ==
    ZipFile_opened(make_reader(file.data.compression_method, file.data.crc32,
                       file.crypto_reader))

(***************************************************************************)
(* read.rs: read_zipfile_from_stream at stream position pos.  The result   *)
(* is Ok(None) ([some |-> FALSE]) at a central directory header, or the    *)
(* ZipFile with its reader made, and the position after the entry.         *)
(***************************************************************************)
LocalFileData(f, pos, version_made_by, flags, file_name_length, extra_field_length) ==
    [system |-> version_made_by \div 256,
     version_made_by |-> version_made_by % 256,
     encrypted |-> flags % 2 = 1,
     using_data_descriptor |-> (flags \div 8) % 2 = 1,
     compression_method |-> CompressionMethod_from_u16(read_u16_le(f, pos + 8)),
     last_modified_time |-> <<read_u16_le(f, pos + 12), read_u16_le(f, pos + 10)>>,
     crc32 |-> read_u32_le(f, pos + 14),
     compressed_size |-> read_u32_le(f, pos + 18),
     uncompressed_size |-> read_u32_le(f, pos + 22),
     file_name |->
         IF (flags \div 2048) % 2 = 1
         THEN from_utf8_lossy(Slice(f, pos + SizeOfLocalHeader, file_name_length))
         ELSE from_cp437(Slice(f, pos + SizeOfLocalHeader, file_name_length)),
     file_name_raw |-> Slice(f, pos + SizeOfLocalHeader, file_name_length),
     extra_field |-> Slice(f, pos + SizeOfLocalHeader + file_name_length,
                           extra_field_length),
     file_comment |-> <<>>,
     header_start |-> 0,
     central_header_start |-> 0,
     data_start |-> <<>>,
     external_attributes |-> 0,
     large_file |-> FALSE,
     aes_mode |-> <<>>,
     extra_fields |-> <<>>]

StreamMade(data, made, next) ==
    IF ~made.ok THEN made
    ELSE [ok |-> TRUE, some |-> TRUE, data |-> data, reader |-> made.reader,
          start |-> next - data.compressed_size, next |-> next]

StreamReader(data, crypto, next) ==
    IF ~crypto.ok THEN crypto
    ELSE StreamMade(data,
             make_reader(data.compression_method, data.crc32, crypto.reader), next)

\* what follows parse_extra_field in read_zipfile_from_stream
StreamZipFile(parsed, f, content_start) ==
    IF ~parsed.res.ok /\ parsed.res.err # "Io" THEN parsed.res
    ELSE IF parsed.file.encrypted
    THEN Err("UnsupportedArchive", "Encrypted files are not supported")
    ELSE IF parsed.file.using_data_descriptor
    THEN Err("UnsupportedArchive",
             "The file length is not available in the local header")
    ELSE StreamReader(parsed.file,
             make_crypto_reader(parsed.file.compression_method, parsed.file.crc32,
                 parsed.file.last_modified_time, parsed.file.using_data_descriptor,
                 Take(f, content_start, parsed.file.compressed_size), <<>>, <<>>),
             content_start + parsed.file.compressed_size)

read_zipfile_from_stream(f, pos) ==
    IF pos + SizeOfMagic > Len(f) THEN EofErr
    ELSE IF MagicAt(f, pos, CENTRAL_DIRECTORY_HEADER_SIGNATURE)
    THEN [ok |-> TRUE, some |-> FALSE]
    ELSE IF ~MagicAt(f, pos, LOCAL_FILE_HEADER_SIGNATURE)
    THEN Err("InvalidArchive", "Invalid local file header")
    ELSE IF pos + SizeOfLocalHeader > Len(f) THEN EofErr
    ELSE IF pos + SizeOfLocalHeader + read_u16_le(f, pos + 26)
                + read_u16_le(f, pos + 28) > Len(f) THEN EofErr
    ELSE StreamZipFile(
             parse_extra_field(LocalFileData(f, pos, read_u16_le(f, pos + 4),
                 read_u16_le(f, pos + 6), read_u16_le(f, pos + 26),
                 read_u16_le(f, pos + 28))),
             f, pos + SizeOfLocalHeader + read_u16_le(f, pos + 26)
                    + read_u16_le(f, pos + 28))

\* what a call of read_zipfile_from_stream leaves of the reader: the ZipFile
\* returned borrows it, positioned at the entry's content
StreamResult(r) ==
    IF r.ok /\ r.some
    THEN [ok |-> TRUE, some |-> TRUE, file_name |-> r.data.file_name, read |-> 0]
    ELSE r

StreamAfter(s, r) ==
    [pos |-> IF ~r.ok THEN s.pos
             ELSE IF r.some THEN r.start ELSE s.pos + SizeOfMagic,
     file |-> IF r.ok /\ r.some
              THEN <<[owned |-> TRUE, remaining |-> r.reader.inner.len]>>
              ELSE <<>>,
     results |-> Append(s.results, StreamResult(r))]

\* read_zipfile_from_stream on the reader, at its start or after the ZipFile
\* of the call before was dropped
ReadStream ==
    /\ stream.file = <<>>
    /\ IF stream.results = <<>> THEN TRUE
       ELSE stream.results[Len(stream.results)].ok
                /\ stream.results[Len(stream.results)].some
    /\ stream' = StreamAfter(stream, read_zipfile_from_stream(bytes, stream.pos))
    /\ UNCHANGED <<bytes, zip, orig, shift, opened, seen, merged, block, entry, finders, search, scan, reading, imm, pipeVars>>

\* ZipFile::read on the ZipFile of the stream: the decoder takes n more bytes
\* from the io::Take below it (decoders read ahead, so n is any number up to
\* what is left)
StreamRead ==
    /\ stream.file # <<>>
    /\ \E n \in 1..stream.file[1].remaining :
          stream' = [pos |-> stream.pos + n,
                     file |-> <<[stream.file[1] EXCEPT !.remaining = @ - n]>>,
                     results |-> [stream.results EXCEPT
                                     ![Len(stream.results)].read = @ + n]]
    /\ UNCHANGED <<bytes, zip, orig, shift, opened, seen, merged, block, entry, finders, search, scan, reading, imm, pipeVars>>

\* a drain that leaves the reader where it is
ZipFileReader_drain_nothing(pos, remaining) == pos

\* ZipFileReader::drain: io::copy of the inner io::Take into a sink
ZipFileReader_drain(pos, remaining) == pos + remaining

\* impl Drop for ZipFile: a ZipFile whose data is owned was made by
\* read_zipfile_from_stream (its reader is made there, never NoReader)
ZipFile_drop(file, pos) ==
    IF file.owned THEN ZipFileReader_drain(pos, file.remaining) ELSE pos

StreamDrop ==
    /\ stream.file # <<>>
    /\ stream' = [stream EXCEPT !.pos = ZipFile_drop(stream.file[1], stream.pos),
                                !.file = <<>>]
    /\ UNCHANGED <<bytes, zip, orig, shift, opened, seen, merged, block, entry, finders, search, scan, reading, imm, pipeVars>>

(***************************************************************************)
(* read.rs: ZipArchive::extract.  The result carries the directory as it   *)
(* was left: [res, disk].                                                  *)
(***************************************************************************)
\* io::copy(&mut file, &mut outfile) into the file just created at p
ExtractCopy(d, p, read) ==
    IF read.ok THEN [res |-> [ok |-> TRUE], disk |-> WithFile(d, p, read.content)]
    ELSE [res |-> Err(read.err, read.msg), disk |-> WithFile(d, p, read.written)]

ExtractCreate(file, p, created) ==
    IF ~created.ok THEN [res |-> created]
    ELSE ExtractCopy(created.disk, p, ZipFile_read(file))

\* the else branch: the parent is made if it does not exist
ExtractFile(file, d, p, made) ==
    IF ~made.ok THEN [res |-> made, disk |-> d]
    ELSE ExtractCreate(file, p, File_create(made.disk, p)) @@ [disk |-> made.disk]

ExtractDir(d, made) ==
    IF made.ok THEN [res |-> [ok |-> TRUE], disk |-> made.disk]
    ELSE [res |-> made, disk |-> d]

\* the body of the loop for one entry
ExtractEntry(file, d) ==
    IF ~file.ok THEN [res |-> file, disk |-> d]
    ELSE IF enclosed_name(file.data.file_name) = <<>>
    THEN [res |-> Err("InvalidArchive", "Invalid file path"), disk |-> d]
    ELSE IF is_dir(file.data.file_name)
    THEN ExtractDir(d, create_dir_all(d, Components(file.data.file_name)))
    ELSE ExtractFile(file, d, Components(file.data.file_name),
             IF Exists(d, Parent(Components(file.data.file_name)))
             THEN [ok |-> TRUE, disk |-> d]
             ELSE create_dir_all(d, Parent(Components(file.data.file_name))))

RECURSIVE extract_from(_, _, _, _)
\* a loop that goes on to the next entry after an error
ExtractNext_goes_on(archive, f, i, done) ==
    IF ~done.res.ok
    THEN [res |-> done.res, disk |-> extract_from(archive, f, i + 1, done.disk).disk]
    ELSE extract_from(archive, f, i + 1, done.disk)

ExtractNext(archive, f, i, done) ==
    IF ~done.res.ok THEN done ELSE extract_from(archive, f, i + 1, done.disk)

extract_from(archive, f, i, d) ==
    IF i >= Len(archive.files) THEN [res |-> [ok |-> TRUE], disk |-> d]
    ELSE ExtractNext(archive, f, i,
             ExtractEntry(by_index_with_optional_password(archive, f, i, <<>>).res, d))

extract(archive, f) == extract_from(archive, f, 0, EmptyDisk)

(***************************************************************************)
(* The archives extraction is run on.                                      *)
(***************************************************************************)
\* the stand-in compressor: runs is a list of <<count, byte>>
Deflate(runs) ==
    Concat([i \in 1..Len(runs) |->
               <<1, runs[i][1] % 256, runs[i][1] \div 256, runs[i][2]>>]) \o <<0>>

DeflatedEntry(name, runs) ==
    [name |-> name, flags |-> 0, method |-> 8,
     crc |-> crc32_of(InflateFrom(ContentOf(Deflate(runs)), 1, EmptyContent).content),
     data |-> Deflate(runs),
     usize |-> InflateFrom(ContentOf(Deflate(runs)), 1, EmptyContent).content.len,
     extra |-> <<>>, time |-> 0]

(***************************************************************************)
(* read.rs: CompletedPaths and IntermediateFile.                           *)
(***************************************************************************)
Reversed(q) == [i \in 1..Len(q) |-> q[Len(q) - i + 1]]
Ancestors(comps, top) == [k \in 1..top |-> Prefix(comps, top - k + 1)]

\* CompletedPaths::containing_dirs, from child to parent: the path itself
\* if it names a directory, then its ancestors but the empty one
containing_dirs(path) ==
    Ancestors(Components(path),
        IF ends_with_slash(path) THEN Len(Components(path))
        ELSE Max(0, Len(Components(path)) - 1))

\* how many of dirs take_while(|p| !self.contains(p)) lets through
TakeWhileNew(seen_paths, dirs) ==
    SetMin({k \in 1..Len(dirs) : dirs[k] \in seen_paths} \cup {Len(dirs) + 1}) - 1

\* the needed directories as take_while leaves them: from child to parent
containing_dirs_not_reversed(seen_paths, path) ==
    SubSeq(containing_dirs(path), 1, TakeWhileNew(seen_paths, containing_dirs(path)))

\* CompletedPaths::new_containing_dirs_needed, from parent to child
new_containing_dirs_needed(seen_paths, path) ==
    Reversed(SubSeq(containing_dirs(path), 1,
                 TakeWhileNew(seen_paths, containing_dirs(path))))

\* CompletedPaths::write_dirs
write_dirs(seen_paths, dirs) == seen_paths \cup {dirs[i] : i \in 1..Len(dirs)}

\* IntermediateFile::immediate(len): a buffer of len zero bytes
immediate(len) ==
    [kind |-> "Immediate", content |-> [data |-> <<>>, len |-> len], path |-> <<>>]

\* IntermediateFile::paging(len): a kept temporary file of len zero bytes;
\* name stands for the path NamedTempFile chose
paging(len, name) ==
    [kind |-> "Paging", content |-> [data |-> <<>>, len |-> len], path |-> <<name>>]

\* io::copy(reader, &mut outfile) with outfile at position 0, then rewind:
\* an Immediate buffer does not grow, and a write of nothing is WriteZero
io_copy(src, outfile) ==
    IF outfile.kind = "Immediate" /\ src.len > outfile.content.len
    THEN IoErr("WriteZero")
    ELSE [ok |-> TRUE,
          file |-> [outfile EXCEPT !.content =
                       [data |-> src.data, len |-> Max(src.len, outfile.content.len)]]]

\* IntermediateFile::remove_backing_file
remove_backing_file(file, backing) ==
    IF file.kind = "Paging" THEN backing \ {file.path[1]} ELSE backing

\* ZipEntry::from_data: the methods it has a decoder for; it panics on others
ZipEntry_supported == {"Stored", "Deflated", "Bzip2", "Zstd"}

SPOOL_THRESHOLD == 2000
UNCOMPRESSED_SPOOL_THRESHOLD == 100000
STOPS_PRIOR_CAPACITY == 1
STOPS_CAPACITY == 200
PROCESSED_CAPACITY == 200

Panic(text) == Err("Panic", text)
Panicked(r) == ~r.ok /\ r.err = "Panic"
Concluded(s) == stage_results[s] # Running

(***************************************************************************)
(* read.rs: ZipArchive::extract_pipelined.  Each stage is a task of the    *)
(* scope; its closure's result is sent on dirs_task_tx, unless it panics.  *)
(* A channel's sending side is gone when the stage that owns it has        *)
(* concluded; so is its receiving side.                                    *)
(***************************************************************************)
Conclude(s, r) ==
    /\ stage_results' = [stage_results EXCEPT ![s] = r]
    /\ dirs_task' = IF Panicked(r) THEN dirs_task ELSE Append(dirs_task, r)

\* ZipArchive::extract into a directory of its own
Extract ==
    /\ zip.ok
    /\ sequential = NotRun
    /\ sequential' = extract(zip, bytes)
    /\ UNCHANGED <<openVars, num_cpus, outcome, stage_results, dirs_task, plan,
                   paths, stops_prior, stops, processed, chunks, mkdir_workers,
                   extract_workers, disk, tmpfiles, completed_paths>>

\* extract_pipelined up to the scope: the target directory exists, the
\* five stages are spawned
ExtractPipelined ==
    /\ zip.ok
    /\ sequential # NotRun
    /\ outcome = NotCalled
    /\ outcome' = Running
    /\ UNCHANGED <<openVars, sequential, num_cpus, stage_results, dirs_task, plan,
                   paths, stops_prior, stops, processed, chunks, mkdir_workers,
                   extract_workers, disk, tmpfiles, completed_paths>>

Active(s) == outcome = Running /\ ~Concluded(s)

\* (1) plan: enclosed_name of every entry, or the error of the first bad one
PlanEntries ==
    [i \in 1..Len(zip.files) |->
        [index |-> i - 1, path |-> enclosed_name(zip.files[i].file_name)[1]]]

PlanCollect ==
    /\ Active("plan")
    /\ plan.phase = "collect"
    /\ IF \E i \in 1..Len(zip.files) : enclosed_name(zip.files[i].file_name) = <<>>
       THEN /\ Conclude("plan", Err("InvalidArchive", "Invalid file path"))
            /\ plan' = [plan EXCEPT !.phase = "done"]
       ELSE /\ plan' = [phase |-> "send", entries |-> PlanEntries,
                        unsent |-> 1..Len(zip.files)]
            /\ UNCHANGED <<stage_results, dirs_task>>
    /\ UNCHANGED <<openVars, sequential, num_cpus, outcome, paths, stops_prior, stops,
                   processed, chunks, mkdir_workers, extract_workers, disk,
                   tmpfiles, completed_paths>>

\* the inspect closure: the path of one entry goes to the mkdir stage
PlanSendPath ==
    /\ Active("plan")
    /\ plan.phase = "send"
    /\ \E k \in plan.unsent :
          IF Concluded("mkdir")
          THEN /\ Conclude("plan", Panic("paths_rx hung up!"))
               /\ plan' = [plan EXCEPT !.phase = "done"]
               /\ UNCHANGED paths
          ELSE /\ paths' = Append(paths, plan.entries[k].path)
               /\ plan' = [plan EXCEPT !.unsent = @ \ {k}]
               /\ UNCHANGED <<stage_results, dirs_task>>
    /\ UNCHANGED <<openVars, sequential, num_cpus, outcome, stops_prior, stops,
                   processed, chunks, mkdir_workers, extract_workers, disk,
                   tmpfiles, completed_paths>>

\* the batch: the entries whose path does not end with '/'
Stops == SelectSeq(plan.entries, LAMBDA e : ~ends_with_slash(e.path))

\* stops_prior_tx.try_send(stops), then Ok
PlanSendStops ==
    /\ Active("plan")
    /\ plan.phase = "send"
    /\ plan.unsent = {}
    /\ plan' = [plan EXCEPT !.phase = "done"]
    /\ IF Concluded("read") \/ Len(stops_prior) >= STOPS_PRIOR_CAPACITY
       THEN /\ Conclude("plan", Panic("expected send to work without blocking"))
            /\ UNCHANGED stops_prior
       ELSE /\ Conclude("plan", Ok)
            /\ stops_prior' = Append(stops_prior, Stops)
    /\ UNCHANGED <<openVars, sequential, num_cpus, outcome, paths, stops,
                   processed, chunks, mkdir_workers, extract_workers, disk,
                   tmpfiles, completed_paths>>

\* (2) read: the batch is received and split with par_chunks(chunk_size)
chunk_size(len, cpus) == IF len \div cpus = 0 THEN len ELSE len \div cpus

par_chunks(q, size) ==
    [k \in 1..((Len(q) + size - 1) \div size) |->
        SubSeq(q, (k - 1) * size + 1, Min(k * size, Len(q)))]

ReadRecv ==
    /\ Active("read")
    /\ ~chunks.received
    /\ IF stops_prior # <<>>
       THEN /\ stops_prior' = Tail(stops_prior)
            /\ IF chunk_size(Len(Head(stops_prior)), num_cpus) = 0
               THEN /\ Conclude("read", Panic("chunk_size must not be zero"))
                    /\ chunks' = [received |-> TRUE, todo |-> <<>>]
               ELSE /\ chunks' = [received |-> TRUE,
                                  todo |-> par_chunks(Head(stops_prior),
                                      chunk_size(Len(Head(stops_prior)), num_cpus))]
                    /\ UNCHANGED <<stage_results, dirs_task>>
       ELSE /\ Concluded("plan")
            /\ Conclude("read", Panic("stops_prior_tx hung up!"))
            /\ chunks' = [chunks EXCEPT !.received = TRUE]
            /\ UNCHANGED stops_prior
    /\ UNCHANGED <<openVars, sequential, num_cpus, outcome, plan, paths, stops,
                   processed, mkdir_workers, extract_workers, disk, tmpfiles,
                   completed_paths>>

\* one visit of a chunk's loop: find_content, the intermediate file sized by
\* uncompressed_size, io::copy of the compressed bytes into it
ReadCopy(found, outfile) ==
    IF ~found.ok THEN [res |-> found, created |-> {}, data |-> <<>>]
    ELSE [res |-> io_copy(ContentOf(found.limit_reader), outfile),
          created |-> IF outfile.kind = "Paging" THEN {outfile.path[1]} ELSE {},
          data |-> <<found.data>>]

ReadVisit(item) ==
    ReadCopy(find_content(zip.files[item.index + 1], bytes),
        IF zip.files[item.index + 1].uncompressed_size < SPOOL_THRESHOLD
        THEN immediate(zip.files[item.index + 1].uncompressed_size)
        ELSE paging(zip.files[item.index + 1].uncompressed_size, <<"read", item.index>>))

ReadItemWith(c, item, visit) ==
    /\ tmpfiles' = tmpfiles \cup visit.created
    /\ zip' = IF visit.data = <<>> THEN zip
              ELSE [zip EXCEPT !.files[item.index + 1] = visit.data[1]]
    /\ IF ~visit.res.ok
       THEN /\ Conclude("read", visit.res)
            /\ UNCHANGED <<stops, chunks>>
       ELSE IF Concluded("decompress")
       THEN /\ Conclude("read", Panic("stops_rx hung up!"))
            /\ UNCHANGED <<stops, chunks>>
       ELSE /\ Len(stops) < STOPS_CAPACITY
            /\ stops' = Append(stops, [index |-> item.index, path |-> item.path,
                                       file |-> visit.res.file])
            /\ chunks' = [chunks EXCEPT !.todo[c] = Tail(@)]
            /\ UNCHANGED <<stage_results, dirs_task>>

ReadItem ==
    /\ Active("read")
    /\ \E c \in 1..Len(chunks.todo) :
          /\ chunks.todo[c] # <<>>
          /\ ReadItemWith(c, Head(chunks.todo[c]), ReadVisit(Head(chunks.todo[c])))
    /\ UNCHANGED <<bytes, orig, shift, opened, seen, callVars, sequential, num_cpus,
                   outcome, plan, paths, stops_prior, processed, mkdir_workers,
                   extract_workers, disk, completed_paths>>

ReadDone ==
    /\ Active("read")
    /\ chunks.received
    /\ \A c \in 1..Len(chunks.todo) : chunks.todo[c] = <<>>
    /\ Conclude("read", Ok)
    /\ UNCHANGED <<openVars, sequential, num_cpus, outcome, plan, paths, stops_prior,
                   stops, processed, chunks, mkdir_workers, extract_workers, disk,
                   tmpfiles, completed_paths>>

\* the pool's threads are alike: the first idle one takes the next item
FirstIdle(workers) ==
    SetMin({w \in DOMAIN workers : ~workers[w].busy} \cup {Len(workers) + 1})

\* (0) mkdir: a worker takes a path and asks which directories are needed
MkdirTake ==
    /\ Active("mkdir")
    /\ paths # <<>>
    /\ paths' = Tail(paths)
    /\ \E w \in 1..num_cpus :
          /\ w = FirstIdle(mkdir_workers)
          /\ mkdir_workers' =
                IF new_containing_dirs_needed(completed_paths, Head(paths)) = <<>>
                THEN mkdir_workers
                ELSE [mkdir_workers EXCEPT ![w] =
                         [busy |-> TRUE, next |-> 1,
                          dirs |-> new_containing_dirs_needed(completed_paths, Head(paths))]]
    /\ UNCHANGED <<openVars, sequential, num_cpus, outcome, stage_results, dirs_task,
                   plan, stops_prior, stops, processed, chunks, extract_workers,
                   disk, tmpfiles, completed_paths>>

\* fs::create_dir of the worker's next directory; AlreadyExists is ignored
CreateNext(s, made) ==
    IF made.ok
    THEN /\ disk' = made.disk
         /\ UNCHANGED <<stage_results, dirs_task>>
    ELSE IF made.msg = "AlreadyExists"
    THEN UNCHANGED <<disk, stage_results, dirs_task>>
    ELSE /\ Conclude(s, made)
         /\ UNCHANGED disk

MkdirCreate ==
    /\ Active("mkdir")
    /\ \E w \in 1..num_cpus :
          /\ mkdir_workers[w].busy
          /\ mkdir_workers[w].next <= Len(mkdir_workers[w].dirs)
          /\ CreateNext("mkdir",
                 create_dir(disk, mkdir_workers[w].dirs[mkdir_workers[w].next]))
          /\ mkdir_workers' = [mkdir_workers EXCEPT ![w].next = @ + 1]
    /\ UNCHANGED <<openVars, sequential, num_cpus, outcome, plan, paths, stops_prior,
                   stops, processed, chunks, extract_workers, tmpfiles,
                   completed_paths>>

\* completed_paths.write().unwrap().write_dirs(&new_dirs[..])
MkdirWrite ==
    /\ Active("mkdir")
    /\ \E w \in 1..num_cpus :
          /\ mkdir_workers[w].busy
          /\ mkdir_workers[w].next > Len(mkdir_workers[w].dirs)
          /\ completed_paths' = write_dirs(completed_paths, mkdir_workers[w].dirs)
          /\ mkdir_workers' = [mkdir_workers EXCEPT ![w] = Idle]
    /\ UNCHANGED <<openVars, sequential, num_cpus, outcome, stage_results, dirs_task,
                   plan, paths, stops_prior, stops, processed, chunks,
                   extract_workers, disk, tmpfiles>>

MkdirDone ==
    /\ Active("mkdir")
    /\ paths = <<>>
    /\ Concluded("plan")
    /\ \A w \in 1..num_cpus : ~mkdir_workers[w].busy
    /\ Conclude("mkdir", Ok)
    /\ UNCHANGED <<openVars, sequential, num_cpus, outcome, plan, paths, stops_prior,
                   stops, processed, chunks, mkdir_workers, extract_workers, disk,
                   tmpfiles, completed_paths>>

\* (3) decompress: ZipEntry::from_data, the intermediate file sized by
\* uncompressed_size, io::copy of the decoded bytes, processed_tx.send
DecompressCopy(decoded, outfile) ==
    IF ~decoded.ok THEN decoded ELSE io_copy(decoded.content, outfile)

DecompressWith(item, outfile, copied) ==
    /\ tmpfiles' = IF outfile.kind = "Paging" THEN tmpfiles \cup {outfile.path[1]}
                   ELSE tmpfiles
    /\ IF ~copied.ok
       THEN /\ Conclude("decompress", copied)
            /\ UNCHANGED processed
       ELSE IF Concluded("materialize")
       THEN /\ Conclude("decompress", Panic("processed_rx hung up!"))
            /\ UNCHANGED processed
       ELSE /\ Len(processed) < PROCESSED_CAPACITY
            /\ processed' = Append(processed, [item EXCEPT !.file = copied.file])
            /\ UNCHANGED <<stage_results, dirs_task>>

DecompressOutfile(data, index) ==
    IF data.uncompressed_size < UNCOMPRESSED_SPOOL_THRESHOLD
    THEN immediate(data.uncompressed_size)
    ELSE paging(data.uncompressed_size, <<"decompress", index>>)

DecompressEntry(item, data) ==
    IF data.compression_method \notin ZipEntry_supported
    THEN /\ Conclude("decompress", Panic("Compression method not supported"))
         /\ UNCHANGED <<processed, tmpfiles>>
    ELSE DecompressWith(item, DecompressOutfile(data, item.index),
             DecompressCopy(Decode(data.compression_method, item.file.content),
                 DecompressOutfile(data, item.index)))

DecompressItem ==
    /\ Active("decompress")
    /\ stops # <<>>
    /\ stops' = Tail(stops)
    /\ DecompressEntry(Head(stops), zip.files[Head(stops).index + 1])
    /\ UNCHANGED <<openVars, sequential, num_cpus, outcome, plan, paths, stops_prior,
                   chunks, mkdir_workers, extract_workers, disk, completed_paths>>

DecompressDone ==
    /\ Active("decompress")
    /\ stops = <<>>
    /\ Concluded("read")
    /\ Conclude("decompress", Ok)
    /\ UNCHANGED <<openVars, sequential, num_cpus, outcome, plan, paths, stops_prior,
                   stops, processed, chunks, mkdir_workers, extract_workers, disk,
                   tmpfiles, completed_paths>>

\* (4) materialize: File::create, io::copy of the intermediate file into
\* it, remove_backing_file
MaterializeCopy(item, created) ==
    /\ disk' = WithFile(created.disk, Components(item.path), item.file.content)
    /\ tmpfiles' = remove_backing_file(item.file, tmpfiles)

MaterializeOpen(w, item, created) ==
    IF created.ok
    THEN /\ MaterializeCopy(item, created)
         /\ UNCHANGED <<extract_workers, stage_results, dirs_task>>
    ELSE IF created.msg = "NotFound"
    THEN /\ extract_workers' = [extract_workers EXCEPT ![w] =
                [busy |-> TRUE, next |-> 1, item |-> item,
                 dirs |-> new_containing_dirs_needed(completed_paths, item.path)]]
         /\ UNCHANGED <<disk, tmpfiles, stage_results, dirs_task>>
    ELSE /\ Conclude("materialize", created)
         /\ UNCHANGED <<disk, tmpfiles, extract_workers>>

MaterializeItem ==
    /\ Active("materialize")
    /\ processed # <<>>
    /\ processed' = Tail(processed)
    /\ \E w \in 1..num_cpus :
          /\ w = FirstIdle(extract_workers)
          /\ MaterializeOpen(w, Head(processed),
                 File_create(disk, Components(Head(processed).path)))
    /\ UNCHANGED <<openVars, sequential, num_cpus, outcome, plan, paths, stops_prior,
                   stops, chunks, mkdir_workers, completed_paths>>

\* the NotFound branch: fs::create_dir of the next missing directory
MaterializeMkdir ==
    /\ Active("materialize")
    /\ \E w \in 1..num_cpus :
          /\ extract_workers[w].busy
          /\ extract_workers[w].next <= Len(extract_workers[w].dirs)
          /\ CreateNext("materialize",
                 create_dir(disk, extract_workers[w].dirs[extract_workers[w].next]))
          /\ extract_workers' = [extract_workers EXCEPT ![w].next = @ + 1]
    /\ UNCHANGED <<openVars, sequential, num_cpus, outcome, plan, paths, stops_prior,
                   stops, processed, chunks, mkdir_workers, tmpfiles,
                   completed_paths>>

\* the NotFound branch, after the loop: write_dirs, then File::create again
MaterializeAgain(item, created) ==
    IF created.ok
    THEN /\ MaterializeCopy(item, created)
         /\ UNCHANGED <<stage_results, dirs_task>>
    ELSE /\ Conclude("materialize", created)
         /\ UNCHANGED <<disk, tmpfiles>>

MaterializeRetry ==
    /\ Active("materialize")
    /\ \E w \in 1..num_cpus :
          /\ extract_workers[w].busy
          /\ extract_workers[w].next > Len(extract_workers[w].dirs)
          /\ completed_paths' = write_dirs(completed_paths, extract_workers[w].dirs)
          /\ MaterializeAgain(extract_workers[w].item,
                 File_create(disk, Components(extract_workers[w].item.path)))
          /\ extract_workers' = [extract_workers EXCEPT ![w] = Idle]
    /\ UNCHANGED <<openVars, sequential, num_cpus, outcome, plan, paths, stops_prior,
                   stops, processed, chunks, mkdir_workers>>

MaterializeDone ==
    /\ Active("materialize")
    /\ processed = <<>>
    /\ Concluded("decompress")
    /\ \A w \in 1..num_cpus : ~extract_workers[w].busy
    /\ Conclude("materialize", Ok)
    /\ UNCHANGED <<openVars, sequential, num_cpus, outcome, plan, paths, stops_prior,
                   stops, processed, chunks, mkdir_workers, extract_workers, disk,
                   tmpfiles, completed_paths>>

\* the scope ends when the five tasks have: a panic of a task is resumed;
\* otherwise the results on dirs_task_rx are read, and the first error is
\* returned
FirstError(rs) ==
    IF \A i \in 1..Len(rs) : rs[i].ok THEN Ok
    ELSE rs[SetMin({i \in 1..Len(rs) : ~rs[i].ok})]

Return ==
    /\ outcome = Running
    /\ \A s \in Stages : Concluded(s)
    /\ IF \E s \in Stages : Panicked(stage_results[s])
       THEN \E s \in Stages : /\ Panicked(stage_results[s])
                              /\ outcome' = stage_results[s]
       ELSE outcome' = FirstError(dirs_task)
    /\ UNCHANGED <<openVars, sequential, num_cpus, stage_results, dirs_task, plan,
                   paths, stops_prior, stops, processed, chunks, mkdir_workers,
                   extract_workers, disk, tmpfiles, completed_paths>>

OpenNext == New \/ ByIndex \/ ByName \/ PrependJunk

OpenSpec == OpenInit /\ [][OpenNext]_vars

(***************************************************************************)
(* Properties of the archive-opening specification.                        *)
(***************************************************************************)
\* C2 (as stated): whenever ZipArchive::new succeeded, len() equals the file
\* count declared by the winning directory candidate, whatever the names.
C2_LenIsDeclaredCount ==
    zip.ok => ZipArchive_len(zip) = seen.number_of_files

\* C2 (amended): whenever ZipArchive::new succeeded, len() equals the number of
\* distinct decoded names among the entries the winning candidate declares; it
\* never exceeds the declared count and equals it when the names are distinct.
C2_LenIsDistinctNames ==
    zip.ok =>
        /\ seen.chosen
        /\ ZipArchive_len(zip)
               = Cardinality({seen.names[i] : i \in 1..Len(seen.names)})
        /\ ZipArchive_len(zip) <= seen.number_of_files
        /\ Len(seen.names) = seen.number_of_files

\* C2 witness: an archive that parsed and declares two entries of one name
C2_DuplicateNamesParsed ==
    /\ zip.ok
    /\ seen.number_of_files = 2
    /\ seen.names[1] = seen.names[2]
    /\ ZipArchive_len(zip) = 1

\* the fields prefix invariance leaves alone, for the given exceptions
Normalised(d, exempt) ==
    [k \in DOMAIN d |-> IF k \in exempt THEN 0 ELSE d[k]]

Shifted(before, after, field) ==
    after[field] = before[field] + shift

\* C3 (as stated): after k bytes are prepended to an archive that parsed,
\* parsing again succeeds, offset() is larger by k and each descriptor is the
\* original one in every field except header_start and data_start, which are
\* larger by k.
C3_PrefixInvariance ==
    (orig.ok /\ zip # NotOpened) =>
        /\ zip.ok
        /\ ZipArchive_offset(zip) = ZipArchive_offset(orig) + shift
        /\ Len(zip.files) = Len(orig.files)
        /\ \A i \in 1..Len(orig.files) :
              /\ Normalised(zip.files[i], {"header_start", "data_start"})
                     = Normalised(orig.files[i], {"header_start", "data_start"})
              /\ Shifted(orig.files[i], zip.files[i], "header_start")
              /\ (orig.files[i].data_start # <<>> /\ zip.files[i].data_start # <<>>)
                     => zip.files[i].data_start[1] = orig.files[i].data_start[1] + shift

\* C4 (as stated): an archive whose ZIP32 end record has
\* central_directory_offset + central_directory_size > cde_start_pos and that
\* has no valid ZIP64 record is refused with InvalidArchive, without a panic.
C4_InvalidOffsetIsInvalidArchive ==
    (/\ zip # NotOpened
     /\ seen.found
     /\ seen.central_directory_offset + seen.central_directory_size > seen.cde_start_pos
     /\ ~seen.valid_zip64)
        => (~zip.ok /\ zip.err = "InvalidArchive")

\* C5 (as stated): opening an entry by index or name follows the four-case
\* password table, for every descriptor of a parsed archive: no password on an
\* encrypted entry is UnsupportedArchive; a password on an encrypted entry is
\* used to decrypt (or rejected as invalid); a password on an unencrypted
\* entry is dropped; an unencrypted entry yields a plaintext reader.  Failures
\* to locate the content and unsupported methods are outside the table.
OutsideTable(res) == ~res.ok /\ res.err \in {"Io", "InvalidArchive", "UnsupportedArchive"}

C5_PasswordTable ==
    (opened.by \in {"index", "name"} /\ opened.file_number < Len(zip.files)) =>
        LET data == zip.files[opened.file_number + 1]
            res == opened.res
        IN  /\ (data.encrypted /\ opened.password = <<>>) =>
                  (~res.ok /\ res.err = "UnsupportedArchive"
                           /\ res.msg = "Password required to decrypt file")
            /\ (data.encrypted /\ opened.password # <<>>) =>
                  \/ OutsideTable(res)
                  \/ ~res.ok /\ res.err = "InvalidPassword"
                  \/ res.ok /\ res.crypto_reader.kind \in {"ZipCrypto", "Aes"}
                            /\ res.crypto_reader.key = opened.password[1]
            /\ ~data.encrypted =>
                  \/ OutsideTable(res)
                  \/ res.ok /\ res.crypto_reader.kind = "Plaintext"

(***************************************************************************)
(* The extraction specification: an archive is opened, extracted with      *)
(* extract into one directory and then, from a second ZipArchive over the  *)
(* same bytes, with extract_pipelined into another.                        *)
(***************************************************************************)
MaxCpus == 2

\* "a", "d/", "d/e/f", "d/g", "d\": stored; "z": an empty file, deflated;
\* "p", "q": 2000 and 100000 zero bytes, deflated; "u": method 1 (Shrink);
\* "w": Deflate64; "/x": an absolute name; "/y": an absolute name, encrypted;
\* "d": a file named like a directory
PipeEntrySeqs ==
    { <<>>,
      <<StoredEntry(<<97>>, <<1, 2>>)>>,
      <<StoredEntry(<<100, 47>>, <<>>)>>,
      <<StoredEntry(<<100, 47, 101, 47, 102>>, <<3>>)>>,
      <<DeflatedEntry(<<122>>, <<>>)>>,
      <<DeflatedEntry(<<112>>, <<<<2000, 0>>>>)>>,
      <<DeflatedEntry(<<113>>, <<<<50000, 0>>, <<50000, 0>>>>)>>,
      <<StoredEntry(<<100, 92>>, <<>>)>>,
      <<[StoredEntry(<<117>>, <<1, 2>>) EXCEPT !.method = 1]>>,
      <<[DeflatedEntry(<<119>>, <<<<9, 5>>>>) EXCEPT !.method = 9]>>,
      <<StoredEntry(<<47, 120>>, <<1>>)>>,
      <<StoredEntry(<<100, 47>>, <<>>), StoredEntry(<<100, 47, 101, 47, 102>>, <<3>>)>>,
      <<StoredEntry(<<100, 47, 101, 47, 102>>, <<3>>), StoredEntry(<<100, 47, 103>>, <<4>>)>>,
      <<DeflatedEntry(<<100, 47, 103>>, <<<<9, 5>>>>), StoredEntry(<<97>>, <<1, 2>>)>>,
      <<StoredEntry(<<97>>, <<1, 2>>), StoredEntry(<<47, 120>>, <<1>>)>>,
      <<StoredEntry(<<47, 120>>, <<1>>), StoredEntry(<<97>>, <<1, 2>>)>>,
      <<StoredEntry(<<97>>, <<1, 2>>),
        [StoredEntry(<<47, 121>>, <<1>>) EXCEPT !.flags = 1]>>,
      <<[StoredEntry(<<117>>, <<1, 2>>) EXCEPT !.method = 1], StoredEntry(<<97>>, <<1, 2>>)>>,
      <<StoredEntry(<<100>>, <<1>>), StoredEntry(<<100, 47, 103>>, <<4>>)>>,
      <<StoredEntry(<<100, 47>>, <<>>), StoredEntry(<<100, 47, 101, 47, 102>>, <<3>>),
        StoredEntry(<<100, 47, 103>>, <<4>>)>> }

PipeArchives ==
    {Zip32Archive(es, Len(es), 0, 0, <<>>) : es \in {q \in PipeEntrySeqs : Len(q) <= MaxEntries}}

PipeInit ==
    /\ bytes \in PipeArchives
    /\ zip = ZipArchive_new(bytes)
    /\ orig = NotOpened
    /\ shift = 0
    /\ opened = NoCall
    /\ seen = Seen(bytes)
    /\ stream = NoStream
    /\ merged = NotMerged
    /\ block = NoBlock
    /\ entry = NoEntry
    /\ finders = NoFinders
    /\ search = NoSearch
    /\ scan = NoScan
    /\ reading = NoReading
    /\ imm = NoImm
    /\ num_cpus \in 1..MaxCpus
    /\ PipeIdle

PipeNext ==
    \/ Extract
    \/ ExtractPipelined
    \/ PlanCollect
    \/ PlanSendPath
    \/ PlanSendStops
    \/ ReadRecv
    \/ ReadItem
    \/ ReadDone
    \/ MkdirTake
    \/ MkdirCreate
    \/ MkdirWrite
    \/ MkdirDone
    \/ DecompressItem
    \/ DecompressDone
    \/ MaterializeItem
    \/ MaterializeMkdir
    \/ MaterializeRetry
    \/ MaterializeDone
    \/ Return

PipeSpec == PipeInit /\ [][PipeNext]_vars

(***************************************************************************)
(* Properties of the extraction specification.                             *)
(***************************************************************************)
Returned == outcome # NotCalled /\ outcome # Running

\* the methods make_reader has a decoder for
ReaderSupported == {"Stored", "Deflated", "Deflate64", "Bzip2", "Zstd", "Lzma"}

\* every entry is unencrypted and uses a supported compression method
Extractable ==
    \A i \in 1..Len(zip.files) :
        /\ ~zip.files[i].encrypted
        /\ zip.files[i].compression_method \in ReaderSupported

\* C1: for an archive of unencrypted entries with supported methods that
\* extract extracts, extract_pipelined returns Ok too and leaves the same
\* directories and the same files with the same bytes.
C1_PipelinedEqualsSequential ==
    (Returned /\ Extractable /\ sequential.res.ok)
        => /\ outcome.ok
           /\ disk = sequential.disk

IsUnsupported(r) == ~r.ok /\ r.err = "UnsupportedArchive"
Undecodable(i) ==
    ~zip.files[i].encrypted /\ zip.files[i].compression_method \notin ReaderSupported

\* by_index followed by a read to the end
ReadOpened(file) == IF ~file.ok THEN file ELSE ZipFile_read(file)
by_index_read(i) ==
    ReadOpened(by_index_with_optional_password(zip, bytes, i - 1, <<>>).res)

\* C6: an entry whose method has no decoder is reported as UnsupportedArchive
\* by by_index followed by read and by the streaming reader, and
\* extract_pipelined neither panics in its decompress stage nor returns
\* anything but UnsupportedArchive.
C6_UnsupportedIsReported ==
    \A i \in 1..Len(zip.files) :
        Undecodable(i) =>
            /\ IsUnsupported(by_index_read(i))
            /\ IsUnsupported(read_zipfile_from_stream(bytes, zip.files[i].header_start))
            /\ ~Panicked(stage_results["decompress"])
            /\ Returned => IsUnsupported(outcome)

\* a stage failed: its closure returned an error
Failed(s) == Concluded(s) /\ ~stage_results[s].ok /\ ~Panicked(stage_results[s])

\* C7: once a stage has failed no stage panics, and what extract_pipelined
\* returns, after all stages have concluded, is the error of a failed stage.
C7_FailureIsReturnedCleanly ==
    (\E s \in Stages : Failed(s)) =>
        /\ \A t \in Stages : ~Panicked(stage_results[t])
        /\ Returned => \E s \in Stages : Failed(s) /\ outcome = stage_results[s]

\* C8: when extract_pipelined has returned and no stage failed, five stage
\* results were collected and Ok was returned.
C8_NoFailureReturnsOk ==
    (Returned /\ \A s \in Stages : ~Failed(s)) =>
        /\ Len(dirs_task) = 5
        /\ outcome = Ok

\* C9: every directory below the target has its parent on disk, every
\* path recorded in CompletedPaths is on disk with its ancestors recorded,
\* and neither a create_dir of the mkdir and materialize workers nor the
\* second File::create of a materialize worker fails with NotFound.
C9_ParentsBeforeChildren ==
    /\ \A p \in disk.dirs : IsDirectory(disk, Parent(p))
    /\ \A p \in completed_paths :
          /\ Exists(disk, p)
          /\ \A k \in 1..(Len(p) - 1) : Prefix(p, k) \in completed_paths
    /\ \A s \in {"mkdir", "materialize"} : stage_results[s] # IoErr("NotFound")

\* a materialize worker is retrying after NotFound and has got past a
\* directory while a mkdir worker is creating directories too
C9_RetryRacesMkdir ==
    \E w, v \in 1..num_cpus :
        /\ extract_workers[w].busy
        /\ extract_workers[w].next > 1
        /\ mkdir_workers[v].busy
        /\ mkdir_workers[v].next > 1

\* C10: when extract_pipelined has returned Ok, no backing file of a Paging
\* intermediate file is left.
C10_NoBackingFileLeft ==
    (Returned /\ outcome.ok) => tmpfiles = {}

(***************************************************************************)
(* Properties of the candidate selection of get_metadata.                  *)
(***************************************************************************)
\* the directory candidates of get_metadata on f after they were read: the
\* ZIP64 ones in the order found, then the ZIP32 view
CandidatesOf(f, found) ==
    IF ~found.ok THEN <<>>
    ELSE ReadAll(f, DirInfos(f, found.cde, found.cde_start_pos))

Candidates(f) == CandidatesOf(f, Zip32CentralDirectoryEnd_find_and_parse(f))

\* ZipArchive::new has just been called on bytes
JustOpened == zip # NotOpened /\ opened = NoCall

\* the candidates were produced and none of them parsed
NoneParses(cands) ==
    /\ cands # <<>>
    /\ \A i \in 1..Len(cands) : ~cands[i].ok /\ cands[i].err # "Panic"

\* the first error of the given kinds in candidate order
FirstErrorAmong(cands, S) == IF S = {} THEN <<>> ELSE <<cands[SetMin(S)]>>

PreferredError(cands, unsupported) ==
    IF unsupported # <<>> THEN unsupported[1]
    ELSE FirstErrorAmong(cands,
             {i \in 1..Len(cands) : cands[i].err # "UnsupportedArchive"})[1]

\* C11: when no directory candidate parses, ZipArchive::new returns the first
\* UnsupportedArchive error in candidate order if there is one and otherwise
\* the first other error in candidate order; it does not panic.
C11_FirstUnsupportedElseFirstError ==
    (JustOpened /\ NoneParses(Candidates(bytes))) =>
        /\ zip.err # "Panic"
        /\ zip = PreferredError(Candidates(bytes),
                     FirstErrorAmong(Candidates(bytes),
                         {i \in 1..Len(Candidates(bytes)) :
                              Candidates(bytes)[i].err = "UnsupportedArchive"}))

\* an archive whose first candidate fails with another error and a later one
\* with UnsupportedArchive has been opened
C11_UnsupportedAfterInvalid ==
    /\ JustOpened
    /\ NoneParses(Candidates(bytes))
    /\ Candidates(bytes)[1].err # "UnsupportedArchive"
    /\ \E i \in 2..Len(Candidates(bytes)) :
           Candidates(bytes)[i].err = "UnsupportedArchive"

\* the candidates that parsed
Parsing(cands) == {i \in 1..Len(cands) : cands[i].ok}

ChosenAmong(cands, archive) ==
    \E i \in Parsing(cands) :
        /\ \A j \in Parsing(cands) : cands[j].dir_start <= cands[i].dir_start
        /\ archive.dir_start = cands[i].dir_start
        /\ archive.offset = cands[i].offset
        /\ archive.files = cands[i].files

\* C12: when several directory candidates parse, ZipArchive::new returns a
\* candidate of greatest dir_start, with the offset and files of that candidate.
C12_LargestDirStartWins ==
    (JustOpened /\ Cardinality(Parsing(Candidates(bytes))) >= 2) =>
        zip.ok /\ ChosenAmong(Candidates(bytes), zip)

\* two candidates parsed and the first one has the greater dir_start and a file
C12_FirstCandidateIsLargest ==
    /\ JustOpened
    /\ Cardinality(Parsing(Candidates(bytes))) >= 2
    /\ Candidates(bytes)[1].ok
    /\ \E j \in Parsing(Candidates(bytes)) :
           Candidates(bytes)[j].dir_start < Candidates(bytes)[1].dir_start
    /\ Candidates(bytes)[1].files # <<>>

(***************************************************************************)
(* Properties of the search for the ZIP32 end record.                      *)
(***************************************************************************)
\* every position of f where the magic of the end record occurs and the
\* record with its comment can be read whole
ParsingEndRecords(f) ==
    {p \in 0..(Len(f) - SizeOfMagic) :
        /\ MagicAt(f, p, CENTRAL_DIRECTORY_END_SIGNATURE)
        /\ p + SizeOfZip32CDEBlock <= Len(f)
        /\ p + SizeOfZip32CDEBlock + read_u16_le(f, p + 20) <= Len(f)}

FoundAtGreatest(f, archive, s, ps) ==
    IF ps = {}
    THEN /\ ~s.found
         /\ archive = Err("InvalidArchive", "Could not find central directory end")
    ELSE /\ s.found
         /\ s.cde_start_pos = SetMax(ps)
         /\ s.central_directory_size = read_u32_le(f, SetMax(ps) + 12)
         /\ s.central_directory_offset = read_u32_le(f, SetMax(ps) + 16)
         /\ archive.ok =>
                archive.comment = Slice(f, SetMax(ps) + SizeOfZip32CDEBlock,
                                        read_u16_le(f, SetMax(ps) + 20))

\* C13: on a file of at least 22 bytes the search for the ZIP32 end record
\* returns the record at the greatest offset where the magic occurs and a
\* whole record with its comment can be read, with that offset, and
\* InvalidArchive("Could not find central directory end") when there is none.
C13_GreatestParsingEndRecord ==
    (zip # NotOpened /\ Len(bytes) >= SizeOfZip32CDEBlock) =>
        FoundAtGreatest(bytes, zip, seen, ParsingEndRecords(bytes))

\* the record found has its magic across the lower edge of the last window
C13_MagicAcrossWindowEdge ==
    /\ zip # NotOpened
    /\ seen.found
    /\ Len(bytes) > END_WINDOW_SIZE_32
    /\ seen.cde_start_pos < Len(bytes) - END_WINDOW_SIZE_32
    /\ seen.cde_start_pos + SizeOfMagic > Len(bytes) - END_WINDOW_SIZE_32

(***************************************************************************)
(* The streaming specification: read_zipfile_from_stream is called on a    *)
(* reader until it returns None or an error; each ZipFile is read fully,   *)
(* partly or not at all and then dropped.                                  *)
(***************************************************************************)
\* "t": its flags announce a data descriptor
StreamPool ==
    { StoredEntry(<<97>>, <<1, 2>>),
      StoredEntry(<<98>>, <<7, 8, 9>>),
      DeflatedEntry(<<122>>, <<<<3, 5>>>>),
      [DeflatedEntry(<<119>>, <<<<9, 5>>>>) EXCEPT !.method = 9],
      [StoredEntry(<<120>>, <<1, 2>>) EXCEPT !.extra = AesExtra(0)],
      [StoredEntry(<<117>>, <<1, 2>>) EXCEPT !.method = 1],
      [StoredEntry(<<116>>, <<1, 2>>) EXCEPT !.flags = 8],
      [StoredEntry(<<101>>, Zeros(11) \o <<(256 - Key) % 256, 252, 253>>)
          EXCEPT !.flags = 1, !.usize = 2] }

StreamArchives ==
    {Zip32Archive(es, Len(es), 0, 0, <<>>) : es \in SeqsUpTo(StreamPool, MaxEntries)}

StreamInit ==
    /\ bytes \in StreamArchives
    /\ zip = ZipArchive_new(bytes)
    /\ orig = NotOpened
    /\ shift = 0
    /\ opened = NoCall
    /\ seen = Seen(bytes)
    /\ stream = NoStream
    /\ merged = NotMerged
    /\ block = NoBlock
    /\ entry = NoEntry
    /\ finders = NoFinders
    /\ search = NoSearch
    /\ scan = NoScan
    /\ reading = NoReading
    /\ imm = NoImm
    /\ num_cpus = 1
    /\ PipeIdle

StreamNext == ReadStream \/ StreamRead \/ StreamDrop

StreamSpec == StreamInit /\ [][StreamNext]_vars

(***************************************************************************)
(* Properties of the streaming specification.                              *)
(***************************************************************************)
\* the stream holds the entries the central directory lists, none of them
\* encrypted and none with a data descriptor, and then the central directory
PlainStream ==
    /\ zip.ok
    /\ Len(zip.files) = seen.number_of_files
    /\ MagicAt(bytes, zip.dir_start, CENTRAL_DIRECTORY_HEADER_SIGNATURE)
    /\ \A i \in 1..Len(zip.files) :
          ~zip.files[i].encrypted /\ ~zip.files[i].using_data_descriptor

\* where the local header after the first k entries starts
HeaderAfter(k) ==
    IF k < Len(zip.files) THEN zip.files[k + 1].header_start ELSE zip.dir_start

\* the i-th call returned the i-th entry, or None after the last entry
ReturnedInOrder(i, r) ==
    IF i <= Len(zip.files)
    THEN r.ok /\ r.some /\ r.file_name = zip.files[i].file_name
    ELSE r.ok /\ ~r.some

StreamInOrder ==
    /\ \A i \in 1..Len(stream.results) : ReturnedInOrder(i, stream.results[i])
    /\ (stream.file = <<>> /\ Len(stream.results) <= Len(zip.files)) =>
           stream.pos = HeaderAfter(Len(stream.results))

DrainedMethods == {"Stored", "Deflated", "Deflate64", "Bzip2", "Zstd"}

InvalidPaths == {i \in 1..Len(zip.files) : enclosed_name(zip.files[i].file_name) = <<>>}

\* the archive with only its first k entries listed
FirstEntries(k) == [zip EXCEPT !.files = SubSeq(zip.files, 1, k)]

\* extract returned "Invalid file path" and the directory holds what the
\* extraction of the entries before entry i left there
StoppedAt(i, before) ==
    /\ sequential.res = Err("InvalidArchive", "Invalid file path")
    /\ sequential.disk = before.disk

\* extract has run on an archive with an invalid path, and the entries before
\* the first such entry were extracted without an error
ReachedInvalidPath(before) ==
    /\ sequential # NotRun
    /\ InvalidPaths # {}
    /\ before.res.ok

\* C15 as stated: at the first entry whose enclosed_name is None extract
\* returns InvalidArchive("Invalid file path"); nothing is created for that
\* entry or a later one and what the earlier entries wrote stays.
C15_StopsAtInvalidPath ==
    ReachedInvalidPath(extract(FirstEntries(SetMin(InvalidPaths \cup {Len(zip.files) + 1}) - 1),
                               bytes))
        => StoppedAt(SetMin(InvalidPaths),
               extract(FirstEntries(SetMin(InvalidPaths) - 1), bytes))

\* by_index opens entry i (it is called before enclosed_name)
Opens(i) == by_index_with_optional_password(zip, bytes, i - 1, <<>>).res.ok

\* C15 amended: the same when by_index opens that entry.
C15_StopsAtOpenedInvalidPath ==
    (/\ ReachedInvalidPath(
            extract(FirstEntries(SetMin(InvalidPaths \cup {Len(zip.files) + 1}) - 1), bytes))
     /\ Opens(SetMin(InvalidPaths)))
        => StoppedAt(SetMin(InvalidPaths),
               extract(FirstEntries(SetMin(InvalidPaths) - 1), bytes))

\* extract stopped at an invalid path after it wrote a file
C15_StoppedAfterAFile ==
    /\ sequential # NotRun
    /\ InvalidPaths # {}
    /\ Opens(SetMin(InvalidPaths))
    /\ sequential.res = Err("InvalidArchive", "Invalid file path")
    /\ DOMAIN sequential.disk.files # {}

(***************************************************************************)
(* The merging specification: an archive is opened, entries are opened     *)
(* with by_index (which fills their data_start), and merge_contents is     *)
(* called with writers at several positions.                               *)
(***************************************************************************)
MergeNext == New \/ ByIndex \/ MergeContents

MergeSpec == OpenInit /\ [][MergeNext]_vars

(***************************************************************************)
(* Properties of merge_contents.                                           *)
(***************************************************************************)
\* one of the additions header_start + at, data_start + at leaves the u64 range
MergeOverflows(files, at) ==
    \E i \in 1..Len(files) :
        \/ files[i].header_start > U64_MAX - at
        \/ files[i].data_start # <<>> /\ files[i].data_start[1] > U64_MAX - at

\* descriptor f moved by at
MovedBy(f, at) ==
    [f EXCEPT !.header_start = @ + at,
              !.central_header_start = 0,
              !.data_start = IF @ = <<>> THEN <<>> ELSE <<@[1] + at>>]

\* m is what the claim says of merge_contents on archive (file f)
MergedAsClaimed(archive, f, m) ==
    IF MergeOverflows(archive.files, m.at)
    THEN /\ ~m.res.ok
         /\ m.res.err = "InvalidArchive"
         /\ m.written = <<>>
    ELSE /\ m.res.ok
         /\ m.written = SubSeq(f, 1, archive.dir_start)
         /\ Len(m.new_files) = Len(archive.files)
         /\ \A i \in 1..Len(archive.files) :
                m.new_files[i] = MovedBy(archive.files[i], m.at)

\* C16: merge_contents on a non-empty archive with the writer at position p
\* writes the source bytes [0, dir_start) and returns the descriptors in
\* order, header_start and a set data_start moved by p, central_header_start
\* 0; when an addition overflows it returns InvalidArchive and writes
\* nothing; the source's descriptors are unchanged in every case.
C16_MergeMovesDescriptors ==
    [][(merged' # merged /\ zip.ok /\ zip.files # <<>>)
           => (MergedAsClaimed(zip, bytes, merged') /\ zip' = zip)]_vars

\* a merge at a position above 0 returned a descriptor whose data_start was
\* set and one whose data_start was not
C16_MergedSetAndUnset ==
    /\ merged.res.ok
    /\ merged.at > 0
    /\ \E i, j \in 1..Len(merged.new_files) :
          /\ merged.new_files[i].data_start # <<>>
          /\ merged.new_files[j].data_start = <<>>

(***************************************************************************)
(* Properties of the capacity of the entry map.                            *)
(***************************************************************************)
\* the candidates of the last ZipArchive::new whose directory info was Ok
SeenInfoOf == {seen.candidates[i][1] :
                  i \in {j \in 1..Len(seen.candidates) : seen.candidates[j] # <<>>}}

\* every candidate's map was created with capacity 0 when it declares more
\* files than its directory start, and with the declared number otherwise
CapacityRule ==
    \A c \in SeenInfoOf :
        c.file_capacity = IF c.number_of_files > c.directory_start THEN 0
                          ELSE c.number_of_files

\* every candidate declares more files than its directory start
DeclaresMoreThanOffset ==
    /\ SeenInfoOf # {}
    /\ \A c \in SeenInfoOf : c.number_of_files > c.directory_start

BlockHosts == {"little", "big"}

\* uN::to_le and uN::from_le: the identity on a little-endian host, swap_bytes
\* on a big-endian one
to_le(host, v) == IF host = "little" THEN v ELSE Reversed(v)
from_le(host, v) == IF host = "little" THEN v ELSE Reversed(v)

\* the bytes an integer occupies in the memory of the host (ptr.write), and the
\* integer that bytes in memory are (ptr.read)
NativeBytes(host, v) == IF host = "little" THEN Reversed(v) ELSE v
NativeValue(host, bs) == IF host = "little" THEN Reversed(bs) ELSE bs

\* the fields of the packed blocks in declaration order, with their sizes
Zip32CDEBlock ==
    <<[name |-> "magic", size |-> 4],
      [name |-> "disk_number", size |-> 2],
      [name |-> "disk_with_central_directory", size |-> 2],
      [name |-> "number_of_files_on_this_disk", size |-> 2],
      [name |-> "number_of_files", size |-> 2],
      [name |-> "central_directory_size", size |-> 4],
      [name |-> "central_directory_offset", size |-> 4],
      [name |-> "zip_file_comment_length", size |-> 2]>>

Zip64CDELocatorBlock ==
    <<[name |-> "magic", size |-> 4],
      [name |-> "disk_with_central_directory", size |-> 4],
      [name |-> "end_of_central_directory_offset", size |-> 8],
      [name |-> "number_of_disks", size |-> 4]>>

Zip64CDEBlock ==
    <<[name |-> "magic", size |-> 4],
      [name |-> "record_size", size |-> 8],
      [name |-> "version_made_by", size |-> 2],
      [name |-> "version_needed_to_extract", size |-> 2],
      [name |-> "disk_number", size |-> 4],
      [name |-> "disk_with_central_directory", size |-> 4],
      [name |-> "number_of_files_on_this_disk", size |-> 8],
      [name |-> "number_of_files", size |-> 8],
      [name |-> "central_directory_size", size |-> 8],
      [name |-> "central_directory_offset", size |-> 8]>>

BlockKinds == {"Zip32CDEBlock", "Zip64CDELocatorBlock", "Zip64CDEBlock"}

BlockLayout(kind) ==
    CASE kind = "Zip32CDEBlock" -> Zip32CDEBlock
      [] kind = "Zip64CDELocatorBlock" -> Zip64CDELocatorBlock
      [] kind = "Zip64CDEBlock" -> Zip64CDEBlock

\* the magic each interpret compares with (Magic::literal of the signature) and
\* the text of its error
BlockMagic(kind) ==
    CASE kind = "Zip32CDEBlock" -> Reversed(CENTRAL_DIRECTORY_END_SIGNATURE)
      [] kind = "Zip64CDELocatorBlock" ->
             Reversed(ZIP64_CENTRAL_DIRECTORY_END_LOCATOR_SIGNATURE)
      [] kind = "Zip64CDEBlock" -> Reversed(ZIP64_CENTRAL_DIRECTORY_END_SIGNATURE)

BlockText(kind) ==
    IF kind = "Zip64CDELocatorBlock"
    THEN "Invalid zip64 locator digital signature header"
    ELSE "Invalid digital signature header"

FieldNames(layout) == {layout[i].name : i \in 1..Len(layout)}
FieldIndex(layout, name) == CHOOSE i \in 1..Len(layout) : layout[i].name = name
FieldStart(layout, i) == SumSeq([j \in 1..(i - 1) |-> layout[j].size])
SizeOfBlock(layout) == FieldStart(layout, Len(layout) + 1)

\* Block::serialize: the block written to a buffer of size_of bytes
Block_serialize(host, layout, b) ==
    Concat([i \in 1..Len(layout) |-> NativeBytes(host, b[layout[i].name])])

\* Block::deserialize: the block read from a buffer of size_of bytes
Block_deserialize(host, layout, bs) ==
    [name \in FieldNames(layout) |->
        NativeValue(host, Slice(bs, FieldStart(layout, FieldIndex(layout, name)),
                                layout[FieldIndex(layout, name)].size))]

\* the to_le! and from_le! macros over every field of a block
Block_to_le(host, b) == [name \in DOMAIN b |-> to_le(host, b[name])]
Block_from_le(host, b) == [name \in DOMAIN b |-> from_le(host, b[name])]

\* an encode that serializes the block as it is in memory
Block_encode_native(host, layout, b) == Block_serialize(host, layout, b)

\* Block::encode: self.to_le().serialize()
Block_encode(host, layout, b) == Block_serialize(host, layout, Block_to_le(host, b))

\* Block::interpret: deserialize, from_le, then the magic is compared
Block_interpret(host, kind, bs) ==
    IF Block_from_le(host, Block_deserialize(host, BlockLayout(kind), bs)).magic
           # BlockMagic(kind)
    THEN Err("InvalidArchive", BlockText(kind))
    ELSE [ok |-> TRUE,
          block |-> Block_from_le(host, Block_deserialize(host, BlockLayout(kind), bs))]

\* Block::write: the bytes the writer receives
Block_write(host, kind, b) == Block_encode(host, BlockLayout(kind), b)

\* Block::parse on a reader holding bs: read_exact of size_of bytes, interpret
Block_parse_on(host, kind, bs) ==
    IF Len(bs) < SizeOfBlock(BlockLayout(kind))
    THEN Err("Io", "failed to fill whole buffer")
    ELSE Block_interpret(host, kind, Slice(bs, 0, SizeOfBlock(BlockLayout(kind))))

\* the integers of n bytes the fields are given: 0, 1, the greatest, and one
\* whose bytes all differ
FieldValues(n) ==
    {[i \in 1..n |-> 0], [i \in 1..n |-> IF i = n THEN 1 ELSE 0],
     [i \in 1..n |-> 255], [i \in 1..n |-> i]}

\* block values: every field with the same kind of value, or one field with
\* distinct bytes and zeros elsewhere; the magic is given separately
BlockFields(layout, magic) ==
    {[name \in FieldNames(layout) |->
         IF name = "magic" THEN magic
         ELSE CHOOSE v \in FieldValues(layout[FieldIndex(layout, name)].size) :
                  v[1] = p[1] /\ v[Len(v)] = p[2]] :
       p \in {<<0, 0>>, <<0, 1>>, <<255, 255>>}}
    \cup {[name \in FieldNames(layout) |->
              IF name = "magic" THEN magic
              ELSE IF name = layout[g].name
              THEN [i \in 1..layout[g].size |-> i]
              ELSE [i \in 1..layout[FieldIndex(layout, name)].size |-> 0]] :
            g \in 2..Len(layout)}

\* the magic of TestBlock in block_serde, which no block type expects
OtherMagic == <<0, 0, 17, 17>>

BlockInputs ==
    UNION {{[host |-> host, kind |-> kind, value |-> v, written |-> <<>>,
             parsed |-> NotOpened] :
              v \in BlockFields(BlockLayout(kind), BlockMagic(kind))
                      \cup BlockFields(BlockLayout(kind), OtherMagic)} :
            host \in BlockHosts, kind \in BlockKinds}

\* block.write(&mut c) on an empty cursor
BlockWrite ==
    /\ block.kind # "none"
    /\ block.written = <<>>
    /\ block' = [block EXCEPT !.written = Block_write(block.host, block.kind, block.value)]
    /\ UNCHANGED <<bytes, zip, orig, shift, opened, seen, stream, merged, entry, finders, search, scan, reading, imm, pipeVars>>

\* c.set_position(0); Block::parse(&mut c)
BlockParse ==
    /\ block.written # <<>>
    /\ block.parsed = NotOpened
    /\ block' = [block EXCEPT !.parsed = Block_parse_on(block.host, block.kind,
                                                        block.written)]
    /\ UNCHANGED <<bytes, zip, orig, shift, opened, seen, stream, merged, entry, finders, search, scan, reading, imm, pipeVars>>

BlockInit ==
    /\ bytes = <<>>
    /\ zip = NotOpened
    /\ orig = NotOpened
    /\ shift = 0
    /\ opened = NoCall
    /\ seen = NothingSeen
    /\ stream = NoStream
    /\ merged = NotMerged
    /\ block \in BlockInputs
    /\ entry = NoEntry
    /\ finders = NoFinders
    /\ search = NoSearch
    /\ scan = NoScan
    /\ reading = NoReading
    /\ imm = NoImm
    /\ num_cpus = 1
    /\ PipeIdle

BlockNext == BlockWrite \/ BlockParse

BlockSpec == BlockInit /\ [][BlockNext]_vars

(***************************************************************************)
(* Properties of the Block round trip.                                     *)
(***************************************************************************)
\* the little-endian bytes of every field of b, in declaration order
LittleEndianBytes(layout, b) ==
    Concat([i \in 1..Len(layout) |-> Reversed(b[layout[i].name])])

\* C18: a block whose magic is the one its type expects, written with
\* Block::write and parsed with Block::parse, comes back equal field by field,
\* the written bytes being the little-endian bytes of the fields; bytes with
\* any other magic are refused with InvalidArchive.
C18_BlockRoundTrip ==
    /\ block.written # <<>> =>
           block.written = LittleEndianBytes(BlockLayout(block.kind), block.value)
    /\ block.parsed # NotOpened =>
           IF block.value.magic = BlockMagic(block.kind)
           THEN block.parsed.ok /\ block.parsed.block = block.value
           ELSE ~block.parsed.ok /\ block.parsed.err = "InvalidArchive"

\* a ZIP64 end block with a field of distinct bytes came back on a big-endian
\* host
C18_RoundTripOnBigEndian ==
    /\ block.kind = "Zip64CDEBlock"
    /\ block.host = "big"
    /\ block.parsed # NotOpened
    /\ block.parsed.ok
    /\ block.parsed.block.record_size = <<1, 2, 3, 4, 5, 6, 7, 8>>

(***************************************************************************)
(* The extra field specification: descriptors are made from central        *)
(* headers whose sizes and offset are sentinels or not and whose extra     *)
(* field holds a ZIP64 record or AES records; parse_extra_field is applied.*)
(***************************************************************************)
\* a central header for the name "a"
CentralHeader(method, csize, usize, offset, extra) ==
    CENTRAL_DIRECTORY_HEADER_SIGNATURE \o u16_to_le(788) \o u16_to_le(20)
        \o u16_to_le(0) \o u16_to_le(method) \o u16_to_le(0)
        \o u16_to_le(33) \o u32_to_le(0) \o u32_to_le(csize)
        \o u32_to_le(usize) \o u16_to_le(1) \o u16_to_le(Len(extra))
        \o u16_to_le(0) \o u16_to_le(0) \o u16_to_le(0) \o u32_to_le(0)
        \o u32_to_le(offset) \o <<97>> \o extra

\* the descriptor central_header_to_zip_file_inner hands to parse_extra_field
DescriptorOf(header) ==
    ZipFileData_new(header, 0, 0, read_u16_le(header, 4), read_u16_le(header, 8),
                    read_u16_le(header, 28), read_u16_le(header, 30))

\* a ZIP64 record (tag 0x0001) that declares len bytes and holds the values
\* and pad more bytes
Zip64Extra(len, values, pad) ==
    u16_to_le(1) \o u16_to_le(len)
        \o Concat([i \in 1..Len(values) |-> u64_to_le(values[i])]) \o Zeros(pad)

\* an extended timestamp record (tag 0x5455) of one byte
TimestampExtra == u16_to_le(21589) \o u16_to_le(1) \o <<9>>

\* an AES record (tag 0x9901, length 7): vendor version, "AE", strength, inner
\* method
AesRecord(version, strength, inner) ==
    u16_to_le(39169) \o u16_to_le(7) \o u16_to_le(version) \o <<65, 69>>
        \o <<strength>> \o u16_to_le(inner)

\* the 64-bit values a ZIP64 record holds
Zip64Values == {<<100, 200, 300>>, <<65536 * 16384, 65536 * 16384 + 5, 7>>}

\* the values of the three fields in a central header: a sentinel or not
Sentinels == [{"uncompressed_size", "compressed_size", "header_start"} -> BOOLEAN]
SentinelCount(sent) ==
    Cardinality({field \in DOMAIN sent : sent[field]})

\* the header for a combination of sentinels, its ZIP64 record declaring its
\* true length, no length at all, or two bytes more, a timestamp record after it
Zip64Header(sent, values, len, pad) ==
    CentralHeader(8,
        IF sent["compressed_size"] THEN ZIP64_BYTES_THR ELSE 11,
        IF sent["uncompressed_size"] THEN ZIP64_BYTES_THR ELSE 12,
        IF sent["header_start"] THEN ZIP64_BYTES_THR ELSE 13,
        Zip64Extra(len, SubSeq(values, 1, SentinelCount(sent)), pad) \o TimestampExtra)

Zip64Headers ==
    UNION {{Zip64Header(sent, values, 8 * SentinelCount(sent), 0),
            Zip64Header(sent, values, 0, 0),
            Zip64Header(sent, values, 8 * SentinelCount(sent) + 2, 2)} :
             sent \in Sentinels, values \in Zip64Values}

AesRecords == {AesRecord(1, 1, 0), AesRecord(2, 3, 8), AesRecord(2, 2, 0)}

\* headers of method 99 with one, two or three AES records, one after the other
AesHeaders ==
    {CentralHeader(99, 11, 12, 13, Concat(rs)) : rs \in SeqsUpTo(AesRecords, 3) \ {<<>>}}

ExtraInputs ==
    {[file |-> DescriptorOf(header), parsed |-> FALSE, res |-> NotOpened, after |-> <<>>,
      offsets |-> <<>>] :
        header \in Zip64Headers \cup AesHeaders}

ExtraInit ==
    /\ bytes = <<>>
    /\ zip = NotOpened
    /\ orig = NotOpened
    /\ shift = 0
    /\ opened = NoCall
    /\ seen = NothingSeen
    /\ stream = NoStream
    /\ merged = NotMerged
    /\ block = NoBlock
    /\ entry \in ExtraInputs
    /\ finders = NoFinders
    /\ search = NoSearch
    /\ scan = NoScan
    /\ reading = NoReading
    /\ imm = NoImm
    /\ num_cpus = 1
    /\ PipeIdle

\* parse_extra_field(&mut result)
ParseExtraField ==
    /\ entry.file # <<>>
    /\ ~entry.parsed
    /\ entry' = [entry EXCEPT !.parsed = TRUE,
                              !.res = parse_extra_field(entry.file).res,
                              !.after = parse_extra_field(entry.file).file,
                              !.offsets = ParseExtraOffsets(entry.file, 0)]
    /\ UNCHANGED <<bytes, zip, orig, shift, opened, seen, stream, merged, block, finders, search, scan, reading, imm, pipeVars>>

ExtraNext == ParseExtraField

ExtraSpec == ExtraInit /\ [][ExtraNext]_vars

(***************************************************************************)
(* Properties of parse_extra_field.                                        *)
(***************************************************************************)
Zip64Fields == <<"uncompressed_size", "compressed_size", "header_start">>

\* the extra field starts with a ZIP64 record
HasZip64Extra(file) ==
    Len(file.extra_field) >= 4 /\ read_u16_le(file.extra_field, 0) = 1

\* how many of the fields before the i-th are sentinels in file
SentinelsBefore(file, i) ==
    Cardinality({j \in 1..(i - 1) : file[Zip64Fields[j]] = ZIP64_BYTES_THR})

\* the i-th field after the call: the 64-bit value at its turn when it was a
\* sentinel, unchanged otherwise
Zip64Replaced(before, after, i) ==
    after[Zip64Fields[i]] =
        IF before[Zip64Fields[i]] = ZIP64_BYTES_THR
        THEN read_u64_le(before.extra_field, 4 + 8 * SentinelsBefore(before, i))
        ELSE before[Zip64Fields[i]]

\* C19: a ZIP64 record replaces exactly the sentinel fields with consecutive
\* 64-bit values in the order uncompressed_size, compressed_size, header_start,
\* 8 bytes per replaced field (the record after those bytes is parsed), and
\* leaves the other fields unchanged.
C19_Zip64ReplacesSentinels ==
    (entry.parsed /\ HasZip64Extra(entry.file)) =>
        /\ entry.res.ok
        /\ \A i \in 1..3 : Zip64Replaced(entry.file, entry.after, i)
        /\ entry.after.extra_fields = <<<<9>>>>
        /\ Normalised(entry.after, {"uncompressed_size", "compressed_size", "header_start",
                                    "large_file", "extra_fields"})
               = Normalised(entry.file, {"uncompressed_size", "compressed_size",
                                         "header_start", "large_file", "extra_fields"})

\* a record that declares no length replaced the two sizes and left
\* header_start
C19_SizesReplaced ==
    /\ entry.parsed
    /\ HasZip64Extra(entry.file)
    /\ read_u16_le(entry.file.extra_field, 2) = 0
    /\ entry.after.uncompressed_size = 65536 * 16384
    /\ entry.after.compressed_size = 65536 * 16384 + 5
    /\ entry.after.header_start = 13

\* the extra field is made of n AES records and nothing else
AesRecordsOnly(file, n) ==
    /\ Len(file.extra_field) = 11 * n
    /\ \A k \in 0..(n - 1) : Slice(file.extra_field, 11 * k, 4) = u16_to_le(39169) \o u16_to_le(7)

\* what the AES record at offset p of the extra field says: strength, vendor
\* version, inner method
AesRecordAt(file, p) ==
    <<file.extra_field[p + 9], read_u16_le(file.extra_field, p + 4),
      CompressionMethod_from_u16(read_u16_le(file.extra_field, p + 9))>>

\* C20: with several well-formed AES records in the extra field, aes_mode and
\* compression_method after parse_extra_field are those of the last record.
C20_LastAesRecordWins ==
    \A n \in 2..3 :
        (entry.parsed /\ AesRecordsOnly(entry.file, n)) =>
            /\ entry.res.ok
            /\ entry.after.aes_mode = AesRecordAt(entry.file, 11 * (n - 1))
            /\ entry.after.compression_method = AesRecordAt(entry.file, 11 * (n - 1))[3]

(***************************************************************************)
(* read.rs: find_content called by several workers, each with its own      *)
(* reader over the same file.  The call is split where it reads and where  *)
(* it writes the descriptor's data_start cell: get, get_or_init, and the   *)
(* final seek.                                                             *)
(***************************************************************************)
IdleFinder == [pc |-> "idle", index |-> 0, data_start |-> 0, res |-> NotOpened]

\* a data start that leaves the extra field of the local header out
LocalDataStart_without_extra(data, f) ==
    data.header_start + SizeOfLocalHeader + read_u16_le(f, data.header_start + 26)

\* `data.header_start + magic_and_header + file_name_length + extra_field_length`
LocalDataStart(data, f) ==
    data.header_start + SizeOfLocalHeader + read_u16_le(f, data.header_start + 26)
        + read_u16_le(f, data.header_start + 28)

\* find_content up to the match on data.data_start.get(): the signature is
\* checked, then either the stored value is taken or the lengths are read
find_content_get(data, f, index) ==
    IF data.header_start + SizeOfMagic > Len(f)
    THEN [pc |-> "done", index |-> index, data_start |-> 0, res |-> EofErr]
    ELSE IF ~MagicAt(f, data.header_start, LOCAL_FILE_HEADER_SIGNATURE)
    THEN [pc |-> "done", index |-> index, data_start |-> 0,
          res |-> Err("InvalidArchive", "Invalid local file header")]
    ELSE IF data.data_start # <<>>
    THEN [pc |-> "seek", index |-> index, data_start |-> data.data_start[1],
          res |-> NotOpened]
    ELSE IF data.header_start + SizeOfLocalHeader > Len(f)
    THEN [pc |-> "done", index |-> index, data_start |-> 0, res |-> EofErr]
    ELSE [pc |-> "init", index |-> index, data_start |-> LocalDataStart(data, f),
          res |-> NotOpened]

\* OnceLock::get_or_init(|| v): an empty cell takes v, a full one keeps its value
OnceLock_get_or_init(cell, v) == IF cell = <<>> THEN <<v>> ELSE cell

\* the seek to data_start and the io::Take returned
find_content_seek(data, f, finder) ==
    [finder EXCEPT !.pc = "done",
                   !.res = [ok |-> TRUE, start |-> finder.data_start,
                            limit_reader |-> Take(f, finder.data_start,
                                                  data.compressed_size)]]

FindGet ==
    /\ zip.ok
    /\ \E w \in 1..Len(finders), index \in 1..Len(zip.files) :
          /\ finders[w].pc = "idle"
          /\ finders' = [finders EXCEPT ![w] = find_content_get(zip.files[index], bytes, index)]
    /\ UNCHANGED <<bytes, zip, orig, shift, opened, seen, stream, merged, block, entry, search, scan, reading, imm, pipeVars>>

FindInit ==
    /\ \E w \in 1..Len(finders) :
          /\ finders[w].pc = "init"
          /\ zip' = [zip EXCEPT !.files[finders[w].index].data_start =
                                    OnceLock_get_or_init(@, finders[w].data_start)]
          /\ finders' = [finders EXCEPT ![w].pc = "seek"]
    /\ UNCHANGED <<bytes, orig, shift, opened, seen, stream, merged, block, entry, search, scan, reading, imm, pipeVars>>

FindSeek ==
    /\ \E w \in 1..Len(finders) :
          /\ finders[w].pc = "seek"
          /\ finders' = [finders EXCEPT ![w] =
                            find_content_seek(zip.files[finders[w].index], bytes, finders[w])]
    /\ UNCHANGED <<bytes, zip, orig, shift, opened, seen, stream, merged, block, entry, search, scan, reading, imm, pipeVars>>

\* the caller drops the view it was given
FindReturn ==
    /\ \E w \in 1..Len(finders) :
          /\ finders[w].pc = "done"
          /\ finders' = [finders EXCEPT ![w] = IdleFinder]
    /\ UNCHANGED <<bytes, zip, orig, shift, opened, seen, stream, merged, block, entry, search, scan, reading, imm, pipeVars>>

\* a local record with an extra field of its own
LocalRecordWithExtra(e, extra) ==
    LOCAL_FILE_HEADER_SIGNATURE \o u16_to_le(20) \o u16_to_le(e.flags)
        \o u16_to_le(e.method) \o u16_to_le(e.time) \o u16_to_le(33)
        \o u32_to_le(e.crc) \o u32_to_le(Len(e.data)) \o u32_to_le(e.usize)
        \o u16_to_le(Len(e.name)) \o u16_to_le(Len(extra)) \o e.name \o extra \o e.data

\* an archive of one entry whose local header has the extra field
LocalExtraArchive(e, extra) ==
    LocalRecordWithExtra(e, extra) \o CentralRecord(e, 0)
        \o Zip32End(1, Len(CentralRecord(e, 0)), Len(LocalRecordWithExtra(e, extra)), <<>>)

\* archives opened for the workers: entries with and without an extra field in
\* the local header, and directories that point beside the local headers
FindArchives ==
    {LocalExtraArchive(StoredEntry(<<97>>, <<1, 2>>), extra) :
        extra \in {TimestampExtra, TimestampExtra \o TimestampExtra}}
    \cup
    {Zip32Archive(es, Len(es), 0, 0, <<>>) :
        es \in SeqsUpTo({e \in OpenPool : e.name \in {<<97>>, <<120>>}}, MaxEntries)}
    \cup {Zip32Archive(es, Len(es), d[1], d[2], <<33>>) :
             es \in SeqsUpTo(OpenPool, 1), d \in {<<1, 0>>, <<0, 1>>}}

FindInit0 ==
    /\ bytes \in FindArchives
    /\ zip = ZipArchive_new(bytes)
    /\ orig = NotOpened
    /\ shift = 0
    /\ opened = NoCall
    /\ seen = Seen(bytes)
    /\ stream = NoStream
    /\ merged = NotMerged
    /\ block = NoBlock
    /\ entry = NoEntry
    /\ finders = [w \in 1..MaxCpus |-> IdleFinder]
    /\ search = NoSearch
    /\ scan = NoScan
    /\ reading = NoReading
    /\ imm = NoImm
    /\ num_cpus = 1
    /\ PipeIdle

FindNext == FindGet \/ FindInit \/ FindSeek \/ FindReturn

FindSpec == FindInit0 /\ [][FindNext]_vars

(***************************************************************************)
(* Properties of find_content.                                             *)
(***************************************************************************)
\* the data start the local header of entry i gives
DataStartOf(i) ==
    zip.files[i].header_start + 30 + read_u16_le(bytes, zip.files[i].header_start + 26)
        + read_u16_le(bytes, zip.files[i].header_start + 28)

\* every stored data_start and every value a caller seeks to is the one the
\* local header gives, and a returned view starts there and holds at most
\* compressed_size bytes
DataStartRight ==
    zip.ok =>
        /\ \A i \in 1..Len(zip.files) :
               zip.files[i].data_start # <<>> => zip.files[i].data_start = <<DataStartOf(i)>>
        /\ \A w \in 1..Len(finders) :
               /\ finders[w].pc \in {"init", "seek"} =>
                      finders[w].data_start = DataStartOf(finders[w].index)
               /\ (finders[w].pc = "done" /\ finders[w].res.ok) =>
                      /\ finders[w].res.start = DataStartOf(finders[w].index)
                      /\ Len(finders[w].res.limit_reader)
                             <= zip.files[finders[w].index].compressed_size
                      /\ finders[w].res.limit_reader
                             = Take(bytes, DataStartOf(finders[w].index),
                                    zip.files[finders[w].index].compressed_size)

\* a data_start that is set stays as it is
DataStartWrittenOnce ==
    (zip.ok /\ zip'.ok) =>
        \A i \in 1..Len(zip.files) :
            zip.files[i].data_start # <<>> =>
                zip'.files[i].data_start = zip.files[i].data_start

\* C21: data_start is written at most once and then never changes; the stored
\* value and the value each caller of find_content seeks to, concurrent
\* callers included, are header_start + 30 + file_name_length +
\* extra_field_length of the local header, and the view returned yields at
\* most compressed_size bytes from there.
C21_DataStartOnceAndRight == [](DataStartRight) /\ [][DataStartWrittenOnce]_vars

\* a worker found the cell of a descriptor empty, and another worker filled
\* it before the first one reached get_or_init
C21_CellFilledMeanwhile ==
    /\ Len(finders) >= 2
    /\ finders[1].pc = "seek"
    /\ finders[2].pc = "init"
    /\ finders[1].index = finders[2].index
    /\ zip.files[finders[1].index].data_start # <<>>
    /\ read_u16_le(bytes, zip.files[finders[1].index].header_start + 28) > 0

(***************************************************************************)
(* Properties of the split of the read stage.                              *)
(***************************************************************************)
\* the step in which the read stage receives its batch
BatchReceived == ~chunks.received /\ chunks'.received /\ stops_prior # <<>>

\* C22: the read stage splits every batch it receives, the empty one included,
\* into contiguous chunks of size at least 1 in directory order, at most
\* NUM_CPUS of them.
C22_AtMostCpusChunks ==
    [][BatchReceived =>
           /\ ~Panicked(stage_results'["read"])
           /\ Len(chunks'.todo) <= num_cpus
           /\ \A c \in 1..Len(chunks'.todo) : Len(chunks'.todo[c]) >= 1
           /\ Concat(chunks'.todo) = Head(stops_prior)]_vars

(***************************************************************************)
(* The ZIP64 search specification: get_directory_info_zip64 is run on      *)
(* files that end with a locator and a ZIP32 end record, up to the result  *)
(* of Zip64CentralDirectoryEnd::find_and_parse.                            *)
(***************************************************************************)
\* the call of Zip64CentralDirectoryEnd::find_and_parse that
\* get_directory_info_zip64 makes once the locator was read
Zip64SearchCall(f, cde_start_pos, locator64) ==
    [called |-> TRUE,
     nominal_offset |-> locator64.end_of_central_directory_offset,
     search_upper_bound |-> cde_start_pos - 60,
     res |-> Zip64CentralDirectoryEnd_find_and_parse(f,
                 locator64.end_of_central_directory_offset, cde_start_pos - 60)]

\* the ZIP32 end record of the file was found and the locator before it parses
Zip64SearchReached(f, found) ==
    /\ found.ok
    /\ Len(f) - (20 + 22 + Len(found.cde.zip_file_comment)) >= 0
    /\ Zip64CentralDirectoryEndLocator_parse(f,
           Len(f) - (20 + 22 + Len(found.cde.zip_file_comment))).ok
    /\ checked_sub(found.cde_start_pos, 60) # <<>>

Zip64SearchOf(f, found) ==
    Zip64SearchCall(f, found.cde_start_pos,
        Zip64CentralDirectoryEndLocator_parse(f,
            Len(f) - (20 + 22 + Len(found.cde.zip_file_comment))))

\* a file: pre, a ZIP64 end record, mid, a locator naming nominal, and the
\* ZIP32 end record of an empty archive
Search64File(pre, mid, nominal) ==
    pre \o Zip64End(0, 0, 0) \o mid \o Zip64Locator(nominal) \o Zip32End(0, 0, 0, <<>>)

Search64Pres == {<<>>, Zeros(3), Zeros(7)}
Search64Mids == {<<>>, Zeros(30), Zeros(20) \o Zip64End(0, 0, 0)}
Search64Nominals == {0, 3, 4, 7, 40, 200}

\* the record preceded by about one window of other bytes
Search64Long == {Search64File(Zeros(k), <<>>, 0) : k \in {2032, 2040, 2044, 2045}}

Search64Files ==
    {Search64File(pre, mid, nominal) :
        pre \in Search64Pres, mid \in Search64Mids, nominal \in Search64Nominals}
    \cup Search64Long

Search64Init ==
    /\ bytes \in Search64Files
    /\ zip = NotOpened
    /\ orig = NotOpened
    /\ shift = 0
    /\ opened = NoCall
    /\ seen = NothingSeen
    /\ stream = NoStream
    /\ merged = NotMerged
    /\ block = NoBlock
    /\ entry = NoEntry
    /\ finders = NoFinders
    /\ search = NoSearch
    /\ scan = NoScan
    /\ reading = NoReading
    /\ imm = NoImm
    /\ num_cpus = 1
    /\ PipeIdle

Find64 ==
    /\ ~search.called
    /\ Zip64SearchReached(bytes, Zip32CentralDirectoryEnd_find_and_parse(bytes))
    /\ search' = Zip64SearchOf(bytes, Zip32CentralDirectoryEnd_find_and_parse(bytes))
    /\ UNCHANGED <<bytes, zip, orig, shift, opened, seen, stream, merged, block, entry, finders, scan, reading, imm, pipeVars>>

Search64Next == Find64

Search64Spec == Search64Init /\ [][Search64Next]_vars

(***************************************************************************)
(* Properties of the ZIP64 search.                                         *)
(***************************************************************************)
\* the occurrences of the ZIP64 end magic that lie within the range searched
Zip64Occurrences ==
    {p \in search.nominal_offset..(search.search_upper_bound - SizeOfMagic) :
        MagicAt(bytes, p, ZIP64_CENTRAL_DIRECTORY_END_SIGNATURE)}

\* C23: the ZIP64 search returns one candidate, and only one, for every
\* occurrence of the magic that lies within [nominal_offset,
\* search_upper_bound), each with archive_offset = its start - nominal_offset.
C23_OneCandidatePerOccurrence ==
    (search.called /\ search.nominal_offset <= search.search_upper_bound
                   /\ Zip64Occurrences # {}) =>
        /\ search.res.ok
        /\ Len(search.res.results) = Cardinality(Zip64Occurrences)
        /\ {search.res.results[i].archive_offset : i \in 1..Len(search.res.results)}
               = {p - search.nominal_offset : p \in Zip64Occurrences}

\* C29: Zip64CentralDirectoryEnd::find_and_parse returns Ok or Err for every
\* pair (nominal_offset, search_upper_bound), nominal_offset >
\* search_upper_bound included; it does not panic.
C29_SearchReturns == search.called => ~Panicked(search.res)

(***************************************************************************)
(* The ZIP32 search specification: Zip32CentralDirectoryEnd::find_and_parse*)
(* taken one window at a time.                                             *)
(***************************************************************************)
\* the occurrences of the magic in the window at window_start that parse
Zip32Parsing(f, window_start) ==
    {p \in rfind_iter(f, window_start, Min(window_start + END_WINDOW_SIZE_32, Len(f)),
                      CENTRAL_DIRECTORY_END_SIGNATURE) :
         Zip32CentralDirectoryEnd_parse(f, p).ok}

\* the start of the window after the one at window_start
Zip32NextWindow_same_place(f, window_start) ==
    Max(saturating_sub(Min(window_start + END_WINDOW_SIZE_32, Len(f)),
                       END_WINDOW_SIZE_32), 0)

Zip32NextWindow(f, window_start) ==
    Max(saturating_sub(Min(window_start + SizeOfMagic, Len(f)), END_WINDOW_SIZE_32), 0)

ScanLengths == {0, 21, 22, 23, 508, 512, 513, 516, 1016, 1020, 1021, 1024, 1528, 1529, 1600}

ScanFiles ==
    SearchFiles
    \cup {Zeros(k) : k \in ScanLengths}
    \cup {Zip32End(0, 0, 0, <<>>) \o Zeros(k) : k \in {600, 1100}}

ScanInit ==
    /\ bytes \in ScanFiles
    /\ zip = NotOpened
    /\ orig = NotOpened
    /\ shift = 0
    /\ opened = NoCall
    /\ seen = NothingSeen
    /\ stream = NoStream
    /\ merged = NotMerged
    /\ block = NoBlock
    /\ entry = NoEntry
    /\ finders = NoFinders
    /\ search = NoSearch
    /\ scan = NoScan
    /\ reading = NoReading
    /\ imm = NoImm
    /\ num_cpus = 1
    /\ PipeIdle

\* the length check and the first window_start
ScanStart ==
    /\ scan.pc = "idle"
    /\ scan' = IF Len(bytes) < SizeOfZip32CDEBlock
               THEN [scan EXCEPT !.pc = "done",
                                 !.res = Err("InvalidArchive", "Invalid zip header")]
               ELSE [scan EXCEPT !.pc = "window",
                                 !.window_start =
                                     saturating_sub(Len(bytes), END_WINDOW_SIZE_32)]
    /\ UNCHANGED <<bytes, zip, orig, shift, opened, seen, stream, merged, block, entry, finders, search, reading, imm, pipeVars>>

\* one iteration of the while loop
ScanWindow ==
    /\ scan.pc = "window"
    /\ scan' =
         IF Zip32Parsing(bytes, scan.window_start) # {}
         THEN [scan EXCEPT
                 !.pc = "done",
                 !.searched = Append(@, scan.window_start),
                 !.res = [ok |-> TRUE,
                          cde |-> Zip32CentralDirectoryEnd_parse(bytes,
                                      SetMax(Zip32Parsing(bytes, scan.window_start))),
                          cde_start_pos |->
                              SetMax(Zip32Parsing(bytes, scan.window_start))]]
         ELSE IF scan.window_start = 0
         THEN [scan EXCEPT
                 !.pc = "done",
                 !.searched = Append(@, scan.window_start),
                 !.res = Err("InvalidArchive", "Could not find central directory end")]
         ELSE [scan EXCEPT
                 !.searched = Append(@, scan.window_start),
                 !.window_start = Zip32NextWindow(bytes, scan.window_start)]
    /\ UNCHANGED <<bytes, zip, orig, shift, opened, seen, stream, merged, block, entry, finders, search, reading, imm, pipeVars>>

ScanNext == ScanStart \/ ScanWindow

\* the search is sequential code: it takes its next step whenever it has one
ScanSpec == ScanInit /\ [][ScanNext]_vars /\ WF_vars(ScanNext)

(***************************************************************************)
(* Properties of the ZIP32 search.                                         *)
(***************************************************************************)
\* window_start strictly decreases from one window to the next
ScanDecreases ==
    (scan.pc = "window" /\ scan'.pc = "window") =>
        scan'.window_start < scan.window_start

\* the window at offset 0 is searched at most once, and exactly once by a
\* search over a file of at least 22 bytes in which no earlier window holds
\* a record that parses; the result is the one of the whole search
ScanEnds ==
    /\ Cardinality({i \in 1..Len(scan.searched) : scan.searched[i] = 0}) <= 1
    /\ scan.pc = "done" =>
         /\ scan.res = Zip32CentralDirectoryEnd_find_and_parse(bytes)
         /\ (~scan.res.ok /\ Len(bytes) >= SizeOfZip32CDEBlock) =>
                scan.searched[Len(scan.searched)] = 0

RECURSIVE RecordOffsets(_, _)
\* the offsets of the TLV records of an extra field: each record is its 4-byte
\* header and the len bytes it declares
RecordOffsets(ef, pos) ==
    IF pos >= Len(ef) THEN <<>>
    ELSE IF pos + 4 > Len(ef) THEN <<pos>>
    ELSE <<pos>> \o RecordOffsets(ef, pos + 4 + read_u16_le(ef, pos + 2))

IsPrefix(s, t) == Len(s) <= Len(t) /\ SubSeq(t, 1, Len(s)) = s

\* C30: parse_extra_field consumes every TLV record as exactly 4 + len
\* bytes, whatever its tag, so every record is parsed at its true offset
\* within the extra field, and the cursor strictly increases.
C30_RecordsAtTrueOffsets ==
    entry.parsed =>
        /\ IsPrefix(entry.offsets, RecordOffsets(entry.file.extra_field, 0))
        /\ \A i \in 1..(Len(entry.offsets) - 1) : entry.offsets[i] < entry.offsets[i + 1]

(***************************************************************************)
(* Properties of the copy of the read stage.                               *)
(***************************************************************************)
\* the stored payload of entry index of the archive
StoredPayload(index) == ContentOf(find_content(zip.files[index + 1], bytes).limit_reader)

\* C26: for every non-directory entry, the read stage copies the entry's
\* whole stored payload (compressed_size bytes) into its intermediate without
\* error, whatever the relation between compressed_size and uncompressed_size.
C26_WholePayloadCopied ==
    /\ stage_results["read"] # IoErr("WriteZero")
    /\ \A i \in 1..Len(stops) :
          /\ stops[i].file.content.data = StoredPayload(stops[i].index).data
          /\ stops[i].file.content.len >= zip.files[stops[i].index + 1].compressed_size

(***************************************************************************)
(* The reading specification: an archive of one entry is opened, by_index  *)
(* returns a ZipFile and read is called on it several times.               *)
(***************************************************************************)
MaxReads == 3

\* Option::take on crypto_reader leaves None
NoCryptoReader == [kind |-> "None", key |-> 0, vendor_version |-> 0, content |-> <<>>]

\* ZipFile::get_reader: the ZipFile afterwards and Ok or the error
ZipFile_get_reader(file) ==
    IF file.reader # "NoReader" THEN [file |-> file, res |-> Ok]
    ELSE IF file.crypto_reader = NoCryptoReader
    THEN [file |-> file, res |-> Panic("Invalid reader state")]
    ELSE IF ~make_reader(file.data.compression_method, file.data.crc32,
                         file.crypto_reader).ok
    THEN [file |-> [file EXCEPT !.crypto_reader = NoCryptoReader],
          res |-> make_reader(file.data.compression_method, file.data.crc32,
                              file.crypto_reader)]
    ELSE [file |-> [file EXCEPT !.crypto_reader = NoCryptoReader,
                                !.reader = file.data.compression_method],
          res |-> Ok]

\* <ZipFile as Read>::read: the first call that makes the reader reads to the
\* end; a call on a reader that has reached the end returns Ok(0)
ZipFile_read_again(file, got) ==
    IF ~got.res.ok THEN got.res
    ELSE IF file.reader = "NoReader" THEN ZipFile_read(file)
    ELSE [ok |-> TRUE, content |-> EmptyContent]

\* an AES-encrypted entry whose AES record names 99 as the inner method
AesInAesEntry ==
    [StoredEntry(<<121>>, Zeros(8) \o <<10, 10 + Key, 1, 2>>)
        EXCEPT !.flags = 1, !.method = 99, !.extra = AesExtra(99), !.usize = 2]

ReadArchives ==
    {Zip32Archive(<<e>>, 1, 0, 0, <<>>) : e \in OpenPool \cup {AesInAesEntry}}
    \cup {Zip32Archive(<<StoredEntry(<<97>>, <<1, 2>>), e>>, 2, 0, 0, <<>>) :
             e \in {StoredEntry(<<98>>, <<7>>), AesInAesEntry}}

ReadInit ==
    /\ bytes \in ReadArchives
    /\ zip = NotOpened
    /\ orig = NotOpened
    /\ shift = 0
    /\ opened = NoCall
    /\ seen = NothingSeen
    /\ stream = NoStream
    /\ merged = NotMerged
    /\ block = NoBlock
    /\ entry = NoEntry
    /\ finders = NoFinders
    /\ search = NoSearch
    /\ scan = NoScan
    /\ reading = NoReading
    /\ imm = NoImm
    /\ num_cpus = 1
    /\ PipeIdle

\* by_index / by_index_decrypt, the ZipFile kept for the reads
ReadByIndex ==
    /\ zip.ok
    /\ opened = NoCall
    /\ \E file_number \in 0..(Len(zip.files) - 1), password \in Passwords :
          /\ zip' = by_index_with_optional_password(zip, bytes, file_number, password).archive
          /\ opened' = [by |-> "index", file_number |-> file_number, password |-> password,
                        res |-> by_index_with_optional_password(zip, bytes, file_number,
                                                                password).res]
          /\ reading' = [file |-> by_index_with_optional_password(zip, bytes, file_number,
                                                                  password).res,
                         results |-> <<>>]
    /\ UNCHANGED <<bytes, orig, shift, seen, stream, merged, block, entry, finders, search, scan, imm, pipeVars>>

\* file.read(buf); after a read that failed in the decoder no further read is
\* taken, and a panic ends the reads
FileRead ==
    /\ reading.file.ok
    /\ Len(reading.results) < MaxReads
    /\ \A i \in 1..Len(reading.results) : ~Panicked(reading.results[i])
    /\ (reading.file.reader # "NoReader" /\ reading.results # <<>>)
           => reading.results[Len(reading.results)].ok
    /\ reading' = [file |-> ZipFile_get_reader(reading.file).file,
                   results |-> Append(reading.results,
                       ZipFile_read_again(reading.file, ZipFile_get_reader(reading.file)))]
    /\ UNCHANGED <<bytes, zip, orig, shift, opened, seen, stream, merged, block, entry, finders, search, scan, imm, pipeVars>>

ReadNext == New \/ ReadByIndex \/ FileRead

ReadSpec == ReadInit /\ [][ReadNext]_vars

(***************************************************************************)
(* Properties of reading a ZipFile.                                        *)
(***************************************************************************)
\* C27: a ZipFile returned by by_index is never in the state where
\* crypto_reader is absent and reader is NoReader; after any sequence of read
\* calls a further read returns a value or an error and never panics.
C27_ReadNeverPanics ==
    /\ reading.file.ok =>
           ~(reading.file.crypto_reader = NoCryptoReader /\ reading.file.reader = "NoReader")
    /\ \A i \in 1..Len(reading.results) : ~Panicked(reading.results[i])

(***************************************************************************)
(* The intermediate-file specification: an IntermediateFile::Immediate of  *)
(* some length receives read, write and seek calls.  usize has the width   *)
(* of the model's u64.                                                     *)
(***************************************************************************)
MaxCalls == 3
ImmLengths == 0..3
ImmRequests == 0..4
SeekStarts == 0..5
SeekOffsets == -5..2

\* `((a as isize) + k as isize) as usize`: the sum modulo the width of usize
as_usize(a, k) ==
    IF k >= 0 /\ a > U64_MAX - k THEN (a - (U64_MAX - k)) - 1
    ELSE IF a + k < 0 THEN ((a + k) + U64_MAX) + 1
    ELSE a + k

\* <IntermediateFile as Read>::read with a buffer of n bytes
Immediate_read(file, n) ==
    IF ~(file.len >= file.pos)
    THEN [file EXCEPT !.calls = @ + 1,
                      !.res = Panic("assertion failed: full_len >= beg")]
    ELSE [file EXCEPT !.calls = @ + 1,
                      !.pos = @ + (Min(file.pos + n, file.len) - file.pos),
                      !.res = [ok |-> TRUE, n |-> Min(file.pos + n, file.len) - file.pos]]

\* <IntermediateFile as Write>::write of a buffer of n bytes
Immediate_write(file, n) ==
    IF ~(file.pos <= file.len)
    THEN [file EXCEPT !.calls = @ + 1,
                      !.res = Panic("assertion failed: beg <= full_len")]
    ELSE [file EXCEPT !.calls = @ + 1,
                      !.pos = @ + (Min(file.pos + n, file.len) - file.pos),
                      !.res = [ok |-> TRUE, n |-> Min(file.pos + n, file.len) - file.pos]]

\* <IntermediateFile as Seek>::seek: whence is "Start", "End" or "Current"
Immediate_seek(file, whence, offset) ==
    [file EXCEPT
        !.calls = @ + 1,
        !.pos = CASE whence = "Start" -> offset
                  [] whence = "End" -> as_usize(file.len, offset)
                  [] OTHER -> as_usize(file.pos, offset),
        !.res = [ok |-> TRUE,
                 n |-> CASE whence = "Start" -> offset
                         [] whence = "End" -> as_usize(file.len, offset)
                         [] OTHER -> as_usize(file.pos, offset)]]

ImmInit ==
    /\ bytes = <<>>
    /\ zip = NotOpened
    /\ orig = NotOpened
    /\ shift = 0
    /\ opened = NoCall
    /\ seen = NothingSeen
    /\ stream = NoStream
    /\ merged = NotMerged
    /\ block = NoBlock
    /\ entry = NoEntry
    /\ finders = NoFinders
    /\ search = NoSearch
    /\ scan = NoScan
    /\ reading = NoReading
    /\ \E len \in ImmLengths : imm = [len |-> len, pos |-> 0, calls |-> 0, res |-> Ok]
    /\ num_cpus = 1
    /\ PipeIdle

\* a call is made while no earlier one has panicked
ImmLive == imm.res.ok /\ imm.calls < MaxCalls

ImmRead ==
    /\ ImmLive
    /\ \E n \in ImmRequests : imm' = Immediate_read(imm, n)
    /\ UNCHANGED <<bytes, zip, orig, shift, opened, seen, stream, merged, block, entry, finders, search, scan, reading, pipeVars>>

ImmWrite ==
    /\ ImmLive
    /\ \E n \in ImmRequests : imm' = Immediate_write(imm, n)
    /\ UNCHANGED <<bytes, zip, orig, shift, opened, seen, stream, merged, block, entry, finders, search, scan, reading, pipeVars>>

ImmSeek ==
    /\ ImmLive
    /\ \/ \E s \in SeekStarts : imm' = Immediate_seek(imm, "Start", s)
       \/ \E k \in SeekOffsets : imm' = Immediate_seek(imm, "End", k)
       \/ \E k \in SeekOffsets : imm' = Immediate_seek(imm, "Current", k)
    /\ UNCHANGED <<bytes, zip, orig, shift, opened, seen, stream, merged, block, entry, finders, search, scan, reading, pipeVars>>

ImmNext == ImmRead \/ ImmWrite \/ ImmSeek

ImmSpec == ImmInit /\ [][ImmNext]_vars

(***************************************************************************)
(* Properties of the Immediate intermediate file.                          *)
(***************************************************************************)
\* C28: for an IntermediateFile::Immediate of length len, after any sequence
\* of read, write and seek calls the cursor satisfies 0 <= pos <= len, and
\* read and write never trip their bounds assertions.
C28_CursorWithinBuffer ==
    /\ 0 <= imm.pos
    /\ imm.pos <= imm.len
    /\ ~Panicked(imm.res)

\* len never changes, and a read or write that returns transfers
\* min(requested, len - pos) bytes and advances pos by that amount
ImmTransfers ==
    /\ imm'.len = imm.len
    /\ (ImmRead \/ ImmWrite) /\ imm'.res.ok =>
           /\ imm'.pos = imm.pos + imm'.res.n
           /\ \E n \in ImmRequests : imm'.res.n = Min(n, imm.len - imm.pos)

(***************************************************************************)
(* Properties of the entries the pipeline handles.                         *)
(***************************************************************************)
\* the entries of the archive that are directories: is_dir of their names
DirectoryEntries == {i \in 1..Len(zip.files) : is_dir(zip.files[i].file_name)}

\* C24: in a run of extract_pipelined in which no stage fails, exactly the
\* non-directory entries are sent to the read stage, and a directory entry
\* (name ending in '/' or '\') is never read nor materialized as a file.
C24_DirectoriesAreNotFiles ==
    /\ \A b \in 1..Len(stops_prior) : \A j \in 1..Len(stops_prior[b]) :
           stops_prior[b][j].index + 1 \notin DirectoryEntries
    /\ \A j \in 1..Len(stops) : stops[j].index + 1 \notin DirectoryEntries
    /\ (Returned /\ outcome.ok) =>
           \A i \in DirectoryEntries :
               Components(zip.files[i].file_name) \notin DOMAIN disk.files

====
